---- MODULE Spec2Model ----
(***************************************************************************)
(* Preference-pair generation of the domain-name model                     *)
(* (training/rlhf/generate_preferences.py): the judge fan-out of           *)
(* score_candidate, the blend of the judges' verdicts, the pairing policy  *)
(* of create_preference_pairs and the sequential batch loop of main.       *)
(*                                                                         *)
(* Numbers.  Judge values are JSON integers.  Judge weights are kept in    *)
(* tenths (0.5 is 5), blended rubric fields in half points (7.5 is 15),    *)
(* rubric-dimension weights in hundredths (0.25 is 25), and a combined     *)
(* score therefore in 1/200 of a point (9.0 is 1800, the margin 0.5 is     *)
(* 100).  For the verdicts used here the Python float results are exact    *)
(* multiples of 1/8, so the scaled integers are the floats the program     *)
(* computes.                                                               *)
(***************************************************************************)
EXTENDS Integers, Sequences, FiniteSets, TLC

VARIABLES
    pc,          \* position of main(): start, nokey, load, loop, cand, gather, sleep, raised, done
    apiKey,      \* os.environ.get("OPENROUTER_API_KEY"): "None", "" or a key
    judgeArg,    \* args.judge
    loaded,      \* a prompt or response file has been opened
    todo,        \* the items of `prompts` the for loop has not reached yet
    promptIdx,   \* position in `prompts` of the item being processed (0: none yet)
    domains,     \* all_domains of the current prompt
    ci,          \* position in all_domains of the candidate being scored
    scored,      \* scored_candidates of the current prompt
    inflight,    \* judge calls awaiting their HTTP response: [prompt, domain, judge]
    outcomes,    \* what the remote judge did, per settled call of the current candidate
    results,     \* what call_judge returned, per settled call of the current candidate
    callCount,   \* history: number of call_judge invocations per [prompt, domain, judge]
    nIssued,     \* history: candidates whose judge calls have been issued
    nScored,     \* history: candidates whose combined_score has been computed
    nSlept,      \* history: inter-call delays that have elapsed
    allPairs,    \* all_pairs
    hashOrder,   \* iteration order the hash seed of the process gives a set of strings
    rawDomains,  \* history: all_domains of the current prompt as extracted, before the dedup
    outFile,     \* the output file: as found at startup, or what the run wrote
    outWrites,   \* history: number of times the output file was opened for writing
    ppIn,        \* argument of create_preference_pairs (pairing specification)
    ppOut,       \* its return value
    ppDone,      \* the call has returned
    response,    \* argument of the four rubric parsers (parsing specification)
    parsed,      \* what each of the four parsers returned
    calcArgs,    \* arguments of one calculator called on its own (calculator specification)
    calcOut,     \* what it returned, or that it raised
    sample,      \* the prompt and response of one sample (rubric specification)
    rubrics,     \* the results of the four rubric scorers for it
    samples,     \* argument of evaluate_dataset / evaluate_results (aggregation specification)
    report,      \* the report returned, or that the call raised
    cmpFiles,    \* the two aggregate result sets being compared (comparison specification)
    cmpOut,      \* the arrow printed for each of the five compared fields
    texts,       \* candidates_text of one prompt and the --judge argument (selection specification)
    turn         \* how far the prompt's iteration of main's loop has come

vars == <<pc, apiKey, judgeArg, loaded, todo, promptIdx, domains, ci, scored,
          inflight, outcomes, results, callCount, nIssued, nScored, nSlept,
          allPairs, hashOrder, rawDomains, outFile, outWrites, ppIn, ppOut, ppDone,
          response, parsed, calcArgs, calcOut, sample, rubrics, samples, report,
          cmpFiles, cmpOut, texts, turn>>

mainVars == <<pc, apiKey, judgeArg, loaded, todo, promptIdx, domains, ci, scored,
              inflight, outcomes, results, callCount, nIssued, nScored, nSlept,
              allPairs, hashOrder, rawDomains, outFile, outWrites>>

pairVars == <<ppIn, ppOut, ppDone>>

parseVars == <<response, parsed>>

calcVars == <<calcArgs, calcOut>>

rubricVars == <<sample, rubrics>>

reportVars == <<samples, report>>

compareVars == <<cmpFiles, cmpOut>>

turnVars == <<texts, turn>>

evalVars == <<parseVars, calcVars, rubricVars, reportVars, compareVars, turnVars>>

---------------------------------------------------------------------------
(* Bounds *)

MaxPrompts == 2

CandidatesPerPrompt == 1

MaxCands == 4

---------------------------------------------------------------------------
(* Judges and verdicts *)

JudgeOrder == <<"minimax", "deepseek">>

JUDGES == [minimax |-> [weight |-> 5], deepseek |-> [weight |-> 5]]

Keys == {"brandability", "pronounceability", "constraint", "creativity", "overall"}

FieldWeight ==
    [brandability |-> 25, pronounceability |-> 20, constraint |-> 25,
     creativity |-> 15, overall |-> 15]

ScoreScale == 2 * 100

EmptyDict == [k \in {} |-> 0]

Dict(f) == [kind |-> "dict", vals |-> f, nonnum |-> {}]

NeutralVerdict == Dict([k \in Keys |-> 5])

RaisedException == [kind |-> "exception", vals |-> EmptyDict, nonnum |-> {}]

(* What json.loads can return for a reply that parses. *)
GoodVerdict == Dict([k \in Keys |-> IF k = "brandability" THEN 9 ELSE 5])

BareNumber == [kind |-> "number", vals |-> EmptyDict, nonnum |-> {}]

BareList == [kind |-> "list", vals |-> EmptyDict, nonnum |-> {}]

MissingKey == Dict([k \in Keys \ {"overall"} |-> 5])

ExtraKey ==
    Dict([k \in Keys \cup {"notes"} |->
            IF k = "notes" THEN 3 ELSE IF k = "brandability" THEN 9 ELSE 5])

NonNumeric ==
    [kind |-> "dict", vals |-> [k \in Keys |-> 5], nonnum |-> {"overall"}]

ValidVerdicts == {GoodVerdict}

WrongShapes == {BareNumber, BareList, MissingKey, ExtraKey, NonNumeric}

(* What the remote judge does with one request. *)
FailureKinds == {"http_error", "api_error", "non_json", "timeout", "transport_error"}

Reply(kind, body) == [kind |-> kind, body |-> body]

(* A reply that fails carries no rubric. *)
NoBody == [kind |-> "none", vals |-> EmptyDict, nonnum |-> {}]

Replies ==
    {Reply(k, NoBody) : k \in FailureKinds}
        \cup {Reply("json", b) : b \in ValidVerdicts \cup WrongShapes}

(* mutant: a timeout escapes call_judge and reaches gather as an exception *)
CallJudgeTimeoutRaises(reply) ==
    CASE reply.kind = "timeout" -> RaisedException
      [] reply.kind \in FailureKinds -> NeutralVerdict
      [] OTHER -> reply.body

(* call_judge: the value returned for one reply *)
CallJudge(reply) ==
    CASE reply.kind = "http_error" -> NeutralVerdict
      [] reply.kind = "api_error" -> NeutralVerdict
      [] reply.kind = "non_json" -> NeutralVerdict
      [] reply.kind = "timeout" -> NeutralVerdict
      [] reply.kind = "transport_error" -> NeutralVerdict
      [] OTHER -> reply.body

ActiveJudges(arg) == IF arg = "both" THEN JudgeOrder ELSE <<arg>>

---------------------------------------------------------------------------
(* score_candidate: the blend of the gathered results *)

RECURSIVE SumOver(_, _)
SumOver(js, term) ==
    IF js = <<>> THEN 0 ELSE term[Head(js)] + SumOver(Tail(js), term)

(* The judges whose gathered result is not an exception, in zip order. *)
Contributing(res, judges) ==
    SelectSeq(judges, LAMBDA j : j \in DOMAIN res /\ res[j].kind # "exception")

(* result.items() needs a dict; value * weight needs a number. *)
BlendRaises(res, judges) ==
    \E i \in 1..Len(Contributing(res, judges)) :
        LET r == res[Contributing(res, judges)[i]]
        IN r.kind # "dict" \/ r.nonnum # {}

TotalWeight(res, judges) ==
    SumOver(Contributing(res, judges), [j \in DOMAIN JUDGES |-> JUDGES[j].weight])

BlendedKeys(res, judges) ==
    UNION {DOMAIN res[Contributing(res, judges)[i]].vals :
               i \in 1..Len(Contributing(res, judges))}

WeightedSum(res, judges, k) ==
    SumOver(Contributing(res, judges),
            [j \in DOMAIN JUDGES |->
                IF j \in DOMAIN res /\ k \in DOMAIN res[j].vals
                THEN res[j].vals[k] * JUDGES[j].weight ELSE 0])

(* combined_scores after the division, in half points.  With total_weight 0 *)
(* nothing is divided; every accumulated sum is then 0.                     *)
BlendedScores(res, judges) ==
    [k \in BlendedKeys(res, judges) |->
        IF TotalWeight(res, judges) > 0
        THEN (2 * WeightedSum(res, judges, k)) \div TotalWeight(res, judges)
        ELSE 0]

(* mutant: a field missing from the blended rubric counts as 0 *)
FinalScoreMissingIsZero(scores) ==
    SumOver(<<"brandability", "pronounceability", "constraint", "creativity", "overall">>,
            [k \in Keys |->
                FieldWeight[k] * (IF k \in DOMAIN scores THEN scores[k] ELSE 0)])

(* final_score, in 1/200 point: a missing field counts as 5. *)
FinalScore(scores) ==
    SumOver(<<"brandability", "pronounceability", "constraint", "creativity", "overall">>,
            [k \in Keys |->
                FieldWeight[k] * (IF k \in DOMAIN scores THEN scores[k] ELSE 2 * 5)])

DomainCandidate(domain, scores) ==
    [domain |-> domain, scores |-> scores, combined_score |-> FinalScore(scores)]

---------------------------------------------------------------------------
(* create_preference_pairs *)

PairingMargin == ScoreScale \div 2

RECURSIVE InsertDesc(_, _)
InsertDesc(x, s) ==
    IF s = <<>> THEN <<x>>
    ELSE IF Head(s).combined_score >= x.combined_score
         THEN <<Head(s)>> \o InsertDesc(x, Tail(s))
         ELSE <<x>> \o s

(* sorted(candidates, key=combined_score, reverse=True): stable *)
RECURSIVE SortedCandidates(_)
SortedCandidates(cands) ==
    IF cands = <<>> THEN <<>>
    ELSE InsertDesc(cands[Len(cands)], SortedCandidates(SubSeq(cands, 1, Len(cands) - 1)))

GapAtLeastMargin(best, other) ==
    best.combined_score - other.combined_score >= PairingMargin

MeaningfulGap(best, other) ==
    best.combined_score - other.combined_score > PairingMargin

(* mutant: the margin is tested against the runner-up only *)
PairsAgainstRunnerUpOnly(cands) ==
    LET sorted == SortedCandidates(cands)
    IN IF Len(sorted) >= 2 /\ MeaningfulGap(sorted[1], sorted[2])
       THEN <<<<sorted[1], sorted[2]>>>>
       ELSE <<>>

CreatePreferencePairs(cands) ==
    LET sorted == SortedCandidates(cands)
    IN IF Len(sorted) >= 2
       THEN LET rest == Tail(sorted)
                kept == SelectSeq(rest, LAMBDA o : MeaningfulGap(sorted[1], o))
            IN [i \in 1..Len(kept) |-> <<sorted[1], kept[i]>>]
       ELSE <<>>

PreferencePair(prompt, chosen, rejected) ==
    [prompt |-> prompt, chosen |-> chosen.domain, rejected |-> rejected.domain,
     chosen_score |-> chosen.combined_score, rejected_score |-> rejected.combined_score]

---------------------------------------------------------------------------
(* The inputs of a run *)

Domains == {"a.com", "b.io"}

Item(kind, extracted) == [kind |-> kind, extracted |-> extracted]

(* Items built from the pre-generated responses file: what                 *)
(* extract_domains_from_response found in all responses of the prompt.      *)
ResponsesItems ==
    {Item("responses", <<"a.com">>), Item("responses", <<"a.com", "b.io", "a.com">>)}

(* Items built from the test file: an empty or a one-domain expected text. *)
TestFileItems == {Item("empty", <<>>), Item("expected", <<"a.com">>)}

Corpora ==
    UNION {[1..n -> ResponsesItems] : n \in 1..MaxPrompts}
        \cup UNION {[1..n -> TestFileItems] : n \in 0..MaxPrompts}

ApiKeys == {"None", "", "sk-or-key"}

Truthy(key) == key \notin {"None", ""}

JudgeArgs == {"both", "minimax", "deepseek"}

(* The output file is never read: it is either as the run found it (absent *)
(* or holding an earlier run's lines) or holds what this run wrote.         *)
AsFound == [written |-> FALSE, content |-> <<>>]

Written(lines) == [written |-> TRUE, content |-> lines]

Range(s) == {s[i] : i \in DOMAIN s}

Perms(S) == {p \in [1..Cardinality(S) -> S] : Range(p) = S}

Min(a, b) == IF a <= b THEN a ELSE b

(* list(set(all_domains)): the strings of the list, once each, in the order *)
(* the hash seed of the process gives them.                                 *)
ListOfSet(extracted, order) ==
    SelectSeq(order, LAMBDA d : d \in Range(extracted))

(* mutant: the list of the set is not cut *)
DedupUnlimited(extracted, order) == ListOfSet(extracted, order)

(* list(set(all_domains))[:candidates_per_prompt * 2] *)
DedupAndLimit(extracted, order) ==
    SubSeq(ListOfSet(extracted, order), 1,
           Min(Len(ListOfSet(extracted, order)), CandidatesPerPrompt * 2))

Triples == [prompt : 1..MaxPrompts, domain : Domains, judge : Range(JudgeOrder)]

Call(p, d, j) == [prompt |-> p, domain |-> d, judge |-> j]

NoResults == [j \in {} |-> NeutralVerdict]

---------------------------------------------------------------------------
(* main *)

MainInit ==
    /\ pc = "start"
    /\ apiKey \in ApiKeys
    /\ judgeArg \in JudgeArgs
    /\ loaded = FALSE
    /\ todo = <<>>
    /\ promptIdx = 0
    /\ domains = <<>>
    /\ ci = 0
    /\ scored = <<>>
    /\ inflight = {}
    /\ outcomes = NoResults
    /\ results = NoResults
    /\ callCount = [t \in Triples |-> 0]
    /\ nIssued = 0
    /\ nScored = 0
    /\ nSlept = 0
    /\ allPairs = <<>>
    /\ hashOrder \in Perms(Domains)
    /\ rawDomains = <<>>
    /\ outFile = AsFound
    /\ outWrites = 0

PairIdle == ppIn = <<>> /\ ppOut = <<>> /\ ppDone = FALSE

(* A call that has not been made has no result. *)
NotCalled == [done |-> FALSE]

(* No parser has returned. *)
NoParse == [p \in {} |-> <<>>]

ParseIdle == response = <<>> /\ parsed = NoParse

CalcIdle == calcArgs = NotCalled /\ calcOut = NotCalled

(* No rubric has been scored. *)
NoRubrics == [p \in {} |-> <<>>]

RubricIdle == sample = NotCalled /\ rubrics = NoRubrics

ReportIdle == samples = <<>> /\ report = NotCalled

CompareIdle == cmpFiles = NotCalled /\ cmpOut = NotCalled

TurnIdle == texts = NotCalled /\ turn = NotCalled

EvalIdle == ParseIdle /\ CalcIdle /\ RubricIdle /\ ReportIdle /\ CompareIdle /\ TurnIdle

Init == MainInit /\ PairIdle /\ EvalIdle

(* mutant: the run goes on without a credential *)
StartWithoutCheck ==
    /\ pc = "start"
    /\ pc' = "load"
    /\ UNCHANGED <<apiKey, judgeArg, loaded, todo, promptIdx, domains, ci, scored,
                   inflight, outcomes, results, callCount, nIssued, nScored, nSlept,
                   allPairs, hashOrder, rawDomains, outFile, outWrites>>
    /\ UNCHANGED <<pairVars, evalVars>>

(* the credential check *)
Start ==
    /\ pc = "start"
    /\ pc' = IF Truthy(apiKey) THEN "load" ELSE "nokey"
    /\ UNCHANGED <<apiKey, judgeArg, loaded, todo, promptIdx, domains, ci, scored,
                   inflight, outcomes, results, callCount, nIssued, nScored, nSlept,
                   allPairs, hashOrder, rawDomains, outFile, outWrites>>
    /\ UNCHANGED <<pairVars, evalVars>>

(* the response file or the test file is read and `prompts` is built *)
LoadInputs ==
    /\ pc = "load"
    /\ \E corpus \in Corpora : todo' = corpus
    /\ loaded' = TRUE
    /\ pc' = "loop"
    /\ UNCHANGED <<apiKey, judgeArg, promptIdx, domains, ci, scored,
                   inflight, outcomes, results, callCount, nIssued, nScored, nSlept,
                   allPairs, hashOrder, rawDomains, outFile, outWrites>>
    /\ UNCHANGED <<pairVars, evalVars>>

(* mutant: a prompt with a single candidate is scored like any other *)
NextPromptNoSkip ==
    /\ pc = "loop"
    /\ todo # <<>>
    /\ todo' = Tail(todo)
    /\ promptIdx' = promptIdx + 1
    /\ rawDomains' = Head(todo).extracted
    /\ LET all == DedupAndLimit(Head(todo).extracted, hashOrder)
       IN IF Head(todo).kind = "empty" \/ Len(all) < 1
          THEN /\ pc' = "loop"
               /\ UNCHANGED <<domains, ci, scored>>
          ELSE /\ pc' = "cand"
               /\ domains' = all
               /\ ci' = 1
               /\ scored' = <<>>
    /\ UNCHANGED <<apiKey, judgeArg, loaded, inflight, outcomes, results, callCount,
                   nIssued, nScored, nSlept, allPairs, hashOrder, outFile, outWrites>>
    /\ UNCHANGED <<pairVars, evalVars>>

(* one iteration of the prompt loop up to the candidate loop *)
NextPrompt ==
    /\ pc = "loop"
    /\ todo # <<>>
    /\ todo' = Tail(todo)
    /\ promptIdx' = promptIdx + 1
    /\ rawDomains' = Head(todo).extracted
    /\ LET all == DedupAndLimit(Head(todo).extracted, hashOrder)
       IN IF Head(todo).kind = "empty" \/ Len(all) < 2
          THEN /\ pc' = "loop"
               /\ UNCHANGED <<domains, ci, scored>>
          ELSE /\ pc' = "cand"
               /\ domains' = all
               /\ ci' = 1
               /\ scored' = <<>>
    /\ UNCHANGED <<apiKey, judgeArg, loaded, inflight, outcomes, results, callCount,
                   nIssued, nScored, nSlept, allPairs, hashOrder, outFile, outWrites>>
    /\ UNCHANGED <<pairVars, evalVars>>

(* mutant: the candidates of a prompt are scored concurrently *)
IssueCallsForAllCandidates ==
    /\ pc = "cand"
    /\ ci <= Len(domains)
    /\ LET new == {Call(promptIdx, domains[i], j) :
                       i \in ci..Len(domains), j \in Range(ActiveJudges(judgeArg))}
       IN /\ inflight' = inflight \cup new
          /\ callCount' = [t \in Triples |-> IF t \in new THEN callCount[t] + 1 ELSE callCount[t]]
    /\ outcomes' = NoResults
    /\ results' = NoResults
    /\ nIssued' = nIssued + 1
    /\ pc' = "gather"
    /\ UNCHANGED <<apiKey, judgeArg, loaded, todo, promptIdx, domains, ci, scored,
                   nScored, nSlept, allPairs, hashOrder, rawDomains, outFile, outWrites>>
    /\ UNCHANGED <<pairVars, evalVars>>

(* score_candidate up to the await of gather: one task per active judge *)
IssueCalls ==
    /\ pc = "cand"
    /\ ci <= Len(domains)
    /\ LET new == {Call(promptIdx, domains[ci], j) : j \in Range(ActiveJudges(judgeArg))}
       IN /\ inflight' = inflight \cup new
          /\ callCount' = [t \in Triples |-> IF t \in new THEN callCount[t] + 1 ELSE callCount[t]]
    /\ outcomes' = NoResults
    /\ results' = NoResults
    /\ nIssued' = nIssued + 1
    /\ pc' = "gather"
    /\ UNCHANGED <<apiKey, judgeArg, loaded, todo, promptIdx, domains, ci, scored,
                   nScored, nSlept, allPairs, hashOrder, rawDomains, outFile, outWrites>>
    /\ UNCHANGED <<pairVars, evalVars>>

(* mutant: a failed call is issued again instead of returning neutral *)
JudgeSettleRetry(t, reply) ==
    /\ t \in inflight
    /\ IF reply.kind \in FailureKinds
       THEN /\ callCount' = [callCount EXCEPT ![t] = @ + 1]
            /\ UNCHANGED <<inflight, outcomes, results>>
       ELSE /\ inflight' = inflight \ {t}
            /\ outcomes' = (t.judge :> reply) @@ outcomes
            /\ results' = (t.judge :> CallJudge(reply)) @@ results
            /\ UNCHANGED callCount
    /\ UNCHANGED <<pc, apiKey, judgeArg, loaded, todo, promptIdx, domains, ci, scored,
                   nIssued, nScored, nSlept, allPairs, hashOrder, rawDomains, outFile, outWrites>>
    /\ UNCHANGED <<pairVars, evalVars>>

(* call_judge from the HTTP response (or its failure) to its return *)
JudgeSettle(t, reply) ==
    /\ t \in inflight
    /\ inflight' = inflight \ {t}
    /\ outcomes' = (t.judge :> reply) @@ outcomes
    /\ results' = (t.judge :> CallJudge(reply)) @@ results
    /\ UNCHANGED <<pc, apiKey, judgeArg, loaded, todo, promptIdx, domains, ci, scored,
                   callCount, nIssued, nScored, nSlept, allPairs, hashOrder, rawDomains, outFile, outWrites>>
    /\ UNCHANGED <<pairVars, evalVars>>

(* mutant: the gather returns as soon as one task has completed *)
GatherFirstCompleted == DOMAIN results # {}

(* the gather of the judge tasks, exceptions returned as values, returns *)
GatherDone == inflight = {}

(* score_candidate after gather, and the append in main *)
Blend ==
    /\ pc = "gather"
    /\ GatherDone
    /\ IF BlendRaises(results, ActiveJudges(judgeArg))
       THEN /\ pc' = "raised"
            /\ UNCHANGED <<scored, nScored>>
       ELSE /\ pc' = "sleep"
            /\ scored' = Append(scored,
                   DomainCandidate(domains[ci], BlendedScores(results, ActiveJudges(judgeArg))))
            /\ nScored' = nScored + 1
    /\ UNCHANGED <<apiKey, judgeArg, loaded, todo, promptIdx, domains, ci,
                   inflight, outcomes, results, callCount, nIssued, nSlept,
                   allPairs, hashOrder, rawDomains, outFile, outWrites>>
    /\ UNCHANGED <<pairVars, evalVars>>

(* await asyncio.sleep(1.0) *)
Sleep ==
    /\ pc = "sleep"
    /\ pc' = "cand"
    /\ ci' = ci + 1
    /\ nSlept' = nSlept + 1
    /\ outcomes' = NoResults
    /\ results' = NoResults
    /\ UNCHANGED <<apiKey, judgeArg, loaded, todo, promptIdx, domains, scored,
                   inflight, callCount, nIssued, nScored, allPairs, hashOrder, rawDomains, outFile, outWrites>>
    /\ UNCHANGED <<pairVars, evalVars>>

(* mutant: the output file is rewritten after every prompt *)
FinishPromptAndSave ==
    /\ pc = "cand"
    /\ ci > Len(domains)
    /\ LET pairs == CreatePreferencePairs(scored)
       IN /\ allPairs' = allPairs \o
                 [i \in 1..Len(pairs) |-> PreferencePair(promptIdx, pairs[i][1], pairs[i][2])]
          /\ outFile' = Written(allPairs \o
                 [i \in 1..Len(pairs) |-> PreferencePair(promptIdx, pairs[i][1], pairs[i][2])])
    /\ pc' = "loop"
    /\ UNCHANGED <<apiKey, judgeArg, loaded, todo, promptIdx, domains, ci, scored,
                   inflight, outcomes, results, callCount, nIssued, nScored, nSlept,
                   hashOrder, rawDomains, outWrites>>
    /\ UNCHANGED <<pairVars, evalVars>>

(* the pairs of one prompt are appended to all_pairs *)
FinishPrompt ==
    /\ pc = "cand"
    /\ ci > Len(domains)
    /\ LET pairs == CreatePreferencePairs(scored)
       IN allPairs' = allPairs \o
              [i \in 1..Len(pairs) |-> PreferencePair(promptIdx, pairs[i][1], pairs[i][2])]
    /\ pc' = "loop"
    /\ UNCHANGED <<apiKey, judgeArg, loaded, todo, promptIdx, domains, ci, scored,
                   inflight, outcomes, results, callCount, nIssued, nScored, nSlept,
                   hashOrder, rawDomains, outFile, outWrites>>
    /\ UNCHANGED <<pairVars, evalVars>>

(* the output file is opened for writing and every pair is written *)
SaveResults ==
    /\ pc = "loop"
    /\ todo = <<>>
    /\ outFile' = Written(allPairs)
    /\ outWrites' = outWrites + 1
    /\ pc' = "done"
    /\ UNCHANGED <<apiKey, judgeArg, loaded, todo, promptIdx, domains, ci, scored,
                   inflight, outcomes, results, callCount, nIssued, nScored, nSlept,
                   allPairs, hashOrder, rawDomains>>
    /\ UNCHANGED <<pairVars, evalVars>>

Next ==
    \/ Start
    \/ LoadInputs
    \/ NextPrompt
    \/ IssueCalls
    \/ \E t \in Triples, reply \in Replies : JudgeSettle(t, reply)
    \/ Blend
    \/ Sleep
    \/ FinishPrompt
    \/ SaveResults

Spec == Init /\ [][Next]_vars

---------------------------------------------------------------------------
(* create_preference_pairs on its own: every list of scored candidates    *)

(* combined scores 6.0, 7.4, 8.0, 8.5 and 9.0 *)
PairScores == {6 * ScoreScale, (74 * ScoreScale) \div 10, 8 * ScoreScale,
               (85 * ScoreScale) \div 10, 9 * ScoreScale}

(* Candidates of one prompt carry distinct domain strings. *)
CandidateLists ==
    UNION {{[i \in 1..n |->
                [domain |-> i, scores |-> EmptyDict, combined_score |-> f[i]]] :
                f \in [1..n -> PairScores]} : n \in 0..MaxCands}

MainIdle ==
    /\ pc = "off"
    /\ apiKey = "sk-or-key"
    /\ judgeArg = "both"
    /\ loaded = FALSE
    /\ todo = <<>>
    /\ promptIdx = 0
    /\ domains = <<>>
    /\ ci = 0
    /\ scored = <<>>
    /\ inflight = {}
    /\ outcomes = NoResults
    /\ results = NoResults
    /\ callCount = [t \in Triples |-> 0]
    /\ nIssued = 0
    /\ nScored = 0
    /\ nSlept = 0
    /\ allPairs = <<>>
    /\ hashOrder \in Perms(Domains)
    /\ rawDomains = <<>>
    /\ outFile = AsFound
    /\ outWrites = 0

InitPairs ==
    /\ MainIdle
    /\ EvalIdle
    /\ ppIn \in CandidateLists
    /\ ppOut = <<>>
    /\ ppDone = FALSE

CallCreatePreferencePairs ==
    /\ ~ppDone
    /\ ppOut' = CreatePreferencePairs(ppIn)
    /\ ppDone' = TRUE
    /\ UNCHANGED ppIn
    /\ UNCHANGED <<mainVars, evalVars>>

NextPairs == CallCreatePreferencePairs

SpecPairs == InitPairs /\ [][NextPairs]_vars

---------------------------------------------------------------------------
(* Text.  A string is a sequence of one-character strings; the em dash and *)
(* the en dash, single characters of the source, are written "em-dash" and *)
(* "en-dash".                                                              *)

Alphabet ==
    <<"a", "b", "c", "d", "e", "f", "g", "h", "i", "j", "k", "l", "m",
      "n", "o", "p", "q", "r", "s", "t", "u", "v", "w", "x", "y", "z">>

UpperCase ==
    <<"A", "B", "C", "D", "E", "F", "G", "H", "I", "J", "K", "L", "M",
      "N", "O", "P", "Q", "R", "S", "T", "U", "V", "W", "X", "Y", "Z">>

Letters == Range(Alphabet)

Digits == {"0", "1", "2", "3", "4", "5", "6", "7", "8", "9"}

WhiteSpace == {" ", "\n"}

(* str.lower() *)
LowerChar(c) ==
    IF c \in Range(UpperCase)
    THEN Alphabet[CHOOSE i \in DOMAIN UpperCase : UpperCase[i] = c]
    ELSE c

Lower(text) == [i \in DOMAIN text |-> LowerChar(text[i])]

(* number of consecutive characters of `text` from position i on that are in set *)
RECURSIVE RunLen(_, _, _)
RunLen(text, i, set) ==
    IF i <= Len(text) /\ text[i] \in set THEN 1 + RunLen(text, i + 1, set) ELSE 0

---------------------------------------------------------------------------
(* The extraction pattern, as each rubric module writes it:                *)
(*     ([a-z0-9-]+)\.([a-z]{2,10})\s*[em dash, hyphen, en dash]            *)

Pattern(name, tld, lo, hi, space, dash) ==
    [name |-> name, tld |-> tld, lo |-> lo, hi |-> hi, space |-> space, dash |-> dash]

ConstraintPattern ==
    Pattern(Letters \cup Digits \cup {"-"}, Letters, 2, 10, WhiteSpace, {"em-dash", "-", "en-dash"})

(* mutant: the diversity rubric accepts only the em dash as separator *)
DiversityPatternEmDashOnly ==
    Pattern(Letters \cup Digits \cup {"-"}, Letters, 2, 10, WhiteSpace, {"em-dash"})

DiversityPattern ==
    Pattern(Letters \cup Digits \cup {"-"}, Letters, 2, 10, WhiteSpace, {"em-dash", "-", "en-dash"})

PronouncePattern ==
    Pattern(Letters \cup Digits \cup {"-"}, Letters, 2, 10, WhiteSpace, {"em-dash", "-", "en-dash"})

PremiumPattern ==
    Pattern(Letters \cup Digits \cup {"-"}, Letters, 2, 10, WhiteSpace, {"em-dash", "-", "en-dash"})

(* One attempt of the regex engine at start position s.  Every quantifier  *)
(* is greedy and backtracks, but the character after a group must be one   *)
(* the group cannot contain (the dot after the name, a space or dash after *)
(* the TLD, a dash after the spaces), so only the longest run can match:   *)
(* a TLD run longer than `hi` or shorter than `lo` fails the attempt.      *)
MatchAt(pat, text, s) ==
    LET n    == RunLen(text, s, pat.name)
        dot  == s + n
        t    == RunLen(text, dot + 1, pat.tld)
        w    == RunLen(text, dot + 1 + t, pat.space)
        last == dot + 1 + t + w
    IN IF /\ n >= 1
          /\ dot <= Len(text) /\ text[dot] = "."
          /\ t >= pat.lo /\ t <= pat.hi
          /\ last <= Len(text) /\ text[last] \in pat.dash
       THEN [found |-> TRUE, name |-> SubSeq(text, s, dot - 1),
             tld |-> SubSeq(text, dot + 1, dot + t), next |-> last + 1]
       ELSE [found |-> FALSE]

(* re.finditer: leftmost matches, left to right, not overlapping *)
RECURSIVE FindIter(_, _, _)
FindIter(pat, text, s) ==
    IF s > Len(text) THEN <<>>
    ELSE LET m == MatchAt(pat, text, s)
         IN IF m.found
            THEN <<[name |-> m.name, tld |-> m.tld]>> \o FindIter(pat, text, m.next)
            ELSE FindIter(pat, text, s + 1)

(* constraint_satisfaction.parse_domains_from_response: (name, tld) tuples *)
ParseDomainsFromResponse(text) ==
    LET ms == FindIter(ConstraintPattern, Lower(text), 1)
    IN [i \in DOMAIN ms |-> <<ms[i].name, ms[i].tld>>]

(* diversity_metrics.parse_domain_names: names *)
DiversityParseDomainNames(text) ==
    LET ms == FindIter(DiversityPattern, Lower(text), 1)
    IN [i \in DOMAIN ms |-> ms[i].name]

(* pronounceability.parse_domain_names: names *)
PronounceParseDomainNames(text) ==
    LET ms == FindIter(PronouncePattern, Lower(text), 1)
    IN [i \in DOMAIN ms |-> ms[i].name]

(* premium_score.parse_domains: (name, tld) tuples *)
PremiumParseDomains(text) ==
    LET ms == FindIter(PremiumPattern, Lower(text), 1)
    IN [i \in DOMAIN ms |-> <<ms[i].name, ms[i].tld>>]

---------------------------------------------------------------------------
(* The four parsers on one response, in the order evaluate_dataset runs    *)
(* the rubrics                                                             *)

MaxResponseLen == 6

ScanChars == {"a", "-", ".", " "}

(* '- Nova.COM (em dash) bright\n- get7.io - quick' *)
TwoLines ==
    <<"-", " ", "N", "o", "v", "a", ".", "C", "O", "M", " ", "em-dash", " ", "b", "r", "i", "g", "h", "t", "\n",
     "-", " ", "g", "e", "t", "7", ".", "i", "o", " ", "-", " ", "q", "u", "i", "c", "k">>

(* 'a.bc-d.ef-' *)
BackToBack ==
    <<"a", ".", "b", "c", "-", "d", ".", "e", "f", "-">>

(* 'a-b.co (en dash)' *)
EnDash ==
    <<"a", "-", "b", ".", "c", "o", " ", "en-dash">>

(* 'a.abcdefghij -' *)
TldOfTen ==
    <<"a", ".", "a", "b", "c", "d", "e", "f", "g", "h", "i", "j", " ", "-">>

(* 'a.abcdefghijk -' *)
TldOfEleven ==
    <<"a", ".", "a", "b", "c", "d", "e", "f", "g", "h", "i", "j", "k", " ", "-">>

(* 'nova.com is taken' *)
NoSeparator ==
    <<"n", "o", "v", "a", ".", "c", "o", "m", " ", "i", "s", " ", "t", "a", "k", "e", "n">>

ParseResponses ==
    UNION {[1..n -> ScanChars] : n \in 0..MaxResponseLen}
        \cup {TwoLines, BackToBack, EnDash, TldOfTen, TldOfEleven, NoSeparator}

ParserOrder == <<"constraint", "diversity", "pronounceability", "premium">>

InitParse ==
    /\ MainIdle
    /\ PairIdle
    /\ CalcIdle /\ RubricIdle /\ ReportIdle /\ CompareIdle /\ TurnIdle
    /\ response \in ParseResponses
    /\ parsed = NoParse

Parsed(rubric, value) ==
    /\ Len(ParserOrder) > Cardinality(DOMAIN parsed)
    /\ ParserOrder[Cardinality(DOMAIN parsed) + 1] = rubric
    /\ parsed' = (rubric :> value) @@ parsed
    /\ UNCHANGED <<response, mainVars, pairVars, calcVars, rubricVars, reportVars, compareVars, turnVars>>

ParseConstraint == Parsed("constraint", ParseDomainsFromResponse(response))

ParseDiversity == Parsed("diversity", DiversityParseDomainNames(response))

ParsePronounce == Parsed("pronounceability", PronounceParseDomainNames(response))

ParsePremium == Parsed("premium", PremiumParseDomains(response))

NextParse == ParseConstraint \/ ParseDiversity \/ ParsePronounce \/ ParsePremium

SpecParse == InitParse /\ [][NextParse]_vars

---------------------------------------------------------------------------
(* Numbers of the rubric scorers.  A Python float is kept as the exact     *)
(* fraction it stands for, in lowest terms.  round(x, 3) gives a number of *)
(* thousandths; when x stands exactly half way between two thousandths     *)
(* the binary float lies a little to one side or the other, so the result  *)
(* is one of the two neighbours: a rounded number is kept as the range     *)
(* lo..hi of thousandths it can be, with lo = hi except at such a tie.     *)

(* body with its argument bound to value: a local variable of the code *)
With(value, body(_)) == body(value)

RECURSIVE Gcd(_, _)
Gcd(a, b) == IF b = 0 THEN a ELSE Gcd(b, a % b)

Frac(n, d) == [n |-> n \div Gcd(n, d), d |-> d \div Gcd(n, d)]

Zero == Frac(0, 1)

One == Frac(1, 1)

Plus(a, b) == Frac(a.n * b.d + b.n * a.d, a.d * b.d)

Minus(a, b) == Frac(a.n * b.d - b.n * a.d, a.d * b.d)

Times(a, b) == Frac(a.n * b.n, a.d * b.d)

Over(a, k) == Frac(a.n, a.d * k)

Leq(a, b) == a.n * b.d <= b.n * a.d

Less(a, b) == a.n * b.d < b.n * a.d

MinOf(a, b) == IF Leq(a, b) THEN a ELSE b

(* a float that is exactly m thousandths *)
Thousandths(m) == [lo |-> m, hi |-> m]

(* round(x, 3): the nearest thousandth, either neighbour at a tie *)
Round3(a) ==
    LET twice == 2000 * a.n
        q     == twice \div (2 * a.d)
        r     == twice % (2 * a.d)
    IN IF r > a.d THEN Thousandths(q + 1)
       ELSE IF r = a.d THEN [lo |-> q, hi |-> q + 1]
       ELSE Thousandths(q)

(* a number of thousandths read back as a fraction *)
Milli(m) == Frac(m, 1000)

RECURSIVE SumSeq(_)
SumSeq(s) == IF s = <<>> THEN Zero ELSE Plus(Head(s), SumSeq(Tail(s)))

(* round(sum(...) / n, 3) over rounded fields *)
MeanMilli(ms) ==
    [lo |-> Round3(Over(SumSeq([i \in DOMAIN ms |-> Milli(ms[i].lo)]), Len(ms))).lo,
     hi |-> Round3(Over(SumSeq([i \in DOMAIN ms |-> Milli(ms[i].hi)]), Len(ms))).hi]

---------------------------------------------------------------------------
(* diversity_metrics: the calculators *)

(* [name[i:i+3] for i in range(len(name) - 2)] *)
NGrams(name) == [i \in 1..(IF Len(name) >= 2 THEN Len(name) - 2 ELSE 0) |-> SubSeq(name, i, i + 2)]

RECURSIVE Extend(_)
Extend(lists) == IF lists = <<>> THEN <<>> ELSE Head(lists) \o Extend(Tail(lists))

CalculateTtr(names) ==
    IF names = <<>> THEN Zero
    ELSE LET all_ngrams == Extend([i \in DOMAIN names |-> NGrams(names[i])])
         IN IF all_ngrams = <<>> THEN One
            ELSE Frac(Cardinality(Range(all_ngrams)), Len(all_ngrams))

(* mutant: the share of distinct names instead of the share of repeats *)
CalculateDuplicateRateOfDistinct(names) ==
    IF names = <<>> THEN Zero
    ELSE Frac(Cardinality(Range(names)), Len(names))

CalculateDuplicateRate(names) ==
    IF names = <<>> THEN Zero
    ELSE Frac(Len(names) - Cardinality(Range(names)), Len(names))

MaxPossible == 36

(* mutant: the share of the 36 letters and digits is not capped *)
CalculateCharDiversityUncapped(names) ==
    IF names = <<>> THEN Zero
    ELSE LET all_chars == Extend(names)
         IN IF all_chars = <<>> THEN Zero
            ELSE Frac(Cardinality(Range(all_chars)), MaxPossible)

CalculateCharDiversity(names) ==
    IF names = <<>> THEN Zero
    ELSE LET all_chars == Extend(names)
         IN IF all_chars = <<>> THEN Zero
            ELSE MinOf(Frac(Cardinality(Range(all_chars)), MaxPossible), One)

PrefixLen == 2

SuffixLen == 2

CalculatePrefixDiversity(names) ==
    IF names = <<>> THEN Zero
    ELSE LET long == SelectSeq(names, LAMBDA nm : Len(nm) >= PrefixLen)
             prefixes == [i \in DOMAIN long |-> SubSeq(long[i], 1, PrefixLen)]
         IN IF prefixes = <<>> THEN Zero
            ELSE Frac(Cardinality(Range(prefixes)), Len(prefixes))

CalculateSuffixDiversity(names) ==
    IF names = <<>> THEN Zero
    ELSE LET long == SelectSeq(names, LAMBDA nm : Len(nm) >= SuffixLen)
             suffixes == [i \in DOMAIN long |->
                             SubSeq(long[i], Len(long[i]) - SuffixLen + 1, Len(long[i]))]
         IN IF suffixes = <<>> THEN Zero
            ELSE Frac(Cardinality(Range(suffixes)), Len(suffixes))

DiversityResult(ttr, dup, chr, pre, suf, overall) ==
    [type_token_ratio |-> ttr, duplicate_rate |-> dup, char_diversity |-> chr,
     prefix_diversity |-> pre, suffix_diversity |-> suf, overall |-> overall]

(* the overall and the rounded fields of check_diversity *)
DiversityScores(ttr, dup_rate, char_div, prefix_div, suffix_div) ==
    DiversityResult(Round3(ttr), Round3(dup_rate), Round3(char_div),
                    Round3(prefix_div), Round3(suffix_div),
                    Round3(Over(Plus(ttr, Plus(Minus(One, dup_rate),
                                Plus(char_div, Plus(prefix_div, suffix_div)))), 5)))

CheckDiversity(text) ==
    With(DiversityParseDomainNames(text), LAMBDA names :
        IF names = <<>> THEN DiversityResult(Thousandths(0), Thousandths(1000), Thousandths(0),
                                 Thousandths(0), Thousandths(0), Thousandths(0))
        ELSE DiversityScores(CalculateTtr(names), CalculateDuplicateRate(names),
                             CalculateCharDiversity(names), CalculatePrefixDiversity(names),
                             CalculateSuffixDiversity(names)))

(* Counter(items): the distinct items, in the order they were first seen *)
AddKey(keys, x) == IF x \in Range(keys) THEN keys ELSE Append(keys, x)

RECURSIVE CounterKeys(_)
CounterKeys(items) ==
    IF items = <<>> THEN <<>>
    ELSE AddKey(CounterKeys(SubSeq(items, 1, Len(items) - 1)), items[Len(items)])

Tally(items, x) == Cardinality({i \in DOMAIN items : items[i] = x})

(* mutant: an entry goes in front of the entries of its own count *)
InsertByCountBeforeEqual(sorted, e) ==
    LET before == Cardinality({i \in DOMAIN sorted : sorted[i][2] > e[2]})
    IN SubSeq(sorted, 1, before) \o <<e>> \o SubSeq(sorted, before + 1, Len(sorted))

(* one step of the stable descending sort by count: the entry <<item,     *)
(* count>> goes behind every entry that has at least its count            *)
InsertByCount(sorted, e) ==
    LET before == Cardinality({i \in DOMAIN sorted : sorted[i][2] >= e[2]})
    IN SubSeq(sorted, 1, before) \o <<e>> \o SubSeq(sorted, before + 1, Len(sorted))

RECURSIVE SortedByCount(_, _)
SortedByCount(items, keys) ==
    IF keys = <<>> THEN <<>>
    ELSE InsertByCount(SortedByCount(items, SubSeq(keys, 1, Len(keys) - 1)),
                       <<keys[Len(keys)], Tally(items, keys[Len(keys)])>>)

(* Counter(items).most_common(n) *)
MostCommon(items, n) ==
    With(SortedByCount(items, CounterKeys(items)), LAMBDA s : SubSeq(s, 1, Min(n, Len(s))))

TopN == 10

CrossAffixLen == 3

(* [n[:3] for n in all_names if len(n) >= 3] *)
CrossPrefixes(all_names) ==
    With(SelectSeq(all_names, LAMBDA nm : Len(nm) >= CrossAffixLen), LAMBDA long :
        [i \in DOMAIN long |-> SubSeq(long[i], 1, CrossAffixLen)])

(* [n[-3:] for n in all_names if len(n) >= 3] *)
CrossSuffixes(all_names) ==
    With(SelectSeq(all_names, LAMBDA nm : Len(nm) >= CrossAffixLen), LAMBDA long :
        [i \in DOMAIN long |-> SubSeq(long[i], Len(long[i]) - CrossAffixLen + 1, Len(long[i]))])

(* evaluate_cross_batch_diversity: without names the dict has only "error" *)
EvaluateCrossBatchDiversity(all_names) ==
    IF all_names = <<>> THEN [error |-> "No names to evaluate"]
    ELSE [total_names |-> Len(all_names),
          unique_names |-> Cardinality(Range(all_names)),
          unique_ratio |-> Round3(Frac(Cardinality(Range(all_names)), Len(all_names))),
          most_common_names |-> MostCommon(all_names, TopN),
          most_common_prefixes |-> MostCommon(CrossPrefixes(all_names), TopN),
          most_common_suffixes |-> MostCommon(CrossSuffixes(all_names), TopN)]

---------------------------------------------------------------------------
(* pronounceability *)

VOWELS == {"a", "e", "i", "o", "u", "y"}

(* the character classes of GOOD_PATTERNS and BAD_PATTERNS *)
PlainVowels == {"a", "e", "i", "o", "u"}

CvConsonants == {"b", "c", "d", "f", "g", "h", "j", "k", "l", "m", "n", "p", "r", "s", "t", "v", "w", "z"}

StartConsonants == {"b", "c", "d", "f", "g", "h", "j", "k", "l", "m", "n", "p", "r", "s", "t", "v", "w"}

ClusterConsonants == {"b", "c", "d", "f", "g", "h", "j", "k", "m", "n", "p", "q", "s", "t", "v", "w", "x", "z"}

RareConsonants == {"q", "x", "z"}

EndConsonants == {"b", "c", "d", "f", "g", "h", "j", "k", "l", "m", "n", "p", "q", "r", "s", "t", "v", "w", "x", "z"}

GoodEndings == {<<"i", "n", "g">>, <<"i", "f", "y">>, <<"l", "y">>, <<"i", "o">>, <<"i", "a">>}

Contains(s, w) == \E i \in 1..(Len(s) - Len(w) + 1) : SubSeq(s, i, i + Len(w) - 1) = w

EndsWith(s, w) == Len(s) >= Len(w) /\ SubSeq(s, Len(s) - Len(w) + 1, Len(s)) = w

IsAlpha(s) == s # <<>> /\ \A i \in DOMAIN s : s[i] \in Letters

(* len(re.findall(class{k,}, name)): the maximal runs of at least k characters *)
RECURSIVE CountRuns(_, _, _, _)
CountRuns(s, i, set, k) ==
    IF i > Len(s) THEN 0
    ELSE LET n == RunLen(s, i, set)
         IN IF n >= k THEN 1 + CountRuns(s, i + n, set, k)
            ELSE CountRuns(s, i + 1, set, k)

(* re.search of a two-class pattern such as [consonant][vowel] *)
HasPair(s, first, second) == \E i \in 1..(Len(s) - 1) : s[i] \in first /\ s[i + 1] \in second

AlphaOnly(name) == SelectSeq(Lower(name), LAMBDA c : c \in Letters)

PronounceVowelRatio(name) ==
    LET letters == SelectSeq(Lower(name), LAMBDA c : c \in Letters)
    IN IF letters = <<>> THEN Zero
       ELSE LET ratio == Frac(Len(SelectSeq(letters, LAMBDA c : c \in VOWELS)), Len(letters))
            IN IF Leq(Frac(30, 100), ratio) /\ Leq(ratio, Frac(50, 100)) THEN One
               ELSE IF \/ (Leq(Frac(20, 100), ratio) /\ Less(ratio, Frac(30, 100)))
                       \/ (Less(Frac(50, 100), ratio) /\ Leq(ratio, Frac(60, 100)))
                    THEN Frac(7, 10)
               ELSE IF \/ (Leq(Frac(10, 100), ratio) /\ Less(ratio, Frac(20, 100)))
                       \/ (Less(Frac(60, 100), ratio) /\ Leq(ratio, Frac(70, 100)))
                    THEN Frac(4, 10)
               ELSE Frac(2, 10)

BadCount(nm) ==
    CountRuns(nm, 1, ClusterConsonants, 4)
    + CountRuns(nm, 1, PlainVowels, 3)
    + CountRuns(nm, 1, RareConsonants, 2)
    + (IF nm # <<>> /\ nm[1] \in {"x", "z"} THEN 1 ELSE 0)
    + CountRuns(nm, 1, Digits, 3)
    + (IF nm # <<>> /\ nm[Len(nm)] \in EndConsonants THEN 1 ELSE 0)

PronounceClusterScore(name) ==
    LET bad_count == BadCount(Lower(name))
    IN IF bad_count = 0 THEN One
       ELSE IF bad_count = 1 THEN Frac(7, 10)
       ELSE IF bad_count = 2 THEN Frac(4, 10)
       ELSE Frac(2, 10)

GoodCount(nm) ==
    (IF \E i \in DOMAIN nm : nm[i] \in PlainVowels THEN 1 ELSE 0)
    + (IF HasPair(nm, CvConsonants, PlainVowels) THEN 1 ELSE 0)
    + (IF HasPair(nm, PlainVowels, CvConsonants) THEN 1 ELSE 0)
    + Cardinality({w \in GoodEndings : EndsWith(nm, w)})
    + (IF nm # <<>> /\ nm[1] \in StartConsonants THEN 1 ELSE 0)

PronouncePatternScore(name) == MinOf(Frac(GoodCount(Lower(name)), 4), One)

PronounceLengthScore(name) ==
    IF 5 <= Len(name) /\ Len(name) <= 10 THEN One
    ELSE IF 4 <= Len(name) /\ Len(name) <= 12 THEN Frac(8, 10)
    ELSE IF 3 <= Len(name) /\ Len(name) <= 15 THEN Frac(6, 10)
    ELSE Frac(3, 10)

PronounceabilityResult(vowel, cluster, pattern, length, overall) ==
    [vowel_ratio |-> vowel, consonant_cluster_score |-> cluster,
     pattern_score |-> pattern, length_score |-> length, overall |-> overall]

(* the weighted overall and the rounded fields of check_pronounceability *)
PronounceabilityScores(vowel_ratio, cluster_score, pattern_score, length_score) ==
    PronounceabilityResult(Round3(vowel_ratio), Round3(cluster_score),
        Round3(pattern_score), Round3(length_score),
        Round3(Plus(Times(vowel_ratio, Frac(25, 100)),
               Plus(Times(cluster_score, Frac(35, 100)),
               Plus(Times(pattern_score, Frac(25, 100)),
                    Times(length_score, Frac(15, 100)))))))

(* mutant: the cluster patterns are matched on the name as it was given *)
CheckPronounceabilityRawCluster(name) ==
    With(AlphaOnly(name), LAMBDA alpha_name :
        IF alpha_name = <<>>
        THEN PronounceabilityResult(Thousandths(0), Thousandths(0), Thousandths(0),
                                    Thousandths(0), Thousandths(0))
        ELSE PronounceabilityScores(PronounceVowelRatio(alpha_name),
                                    PronounceClusterScore(name),
                                    PronouncePatternScore(alpha_name),
                                    PronounceLengthScore(name)))

CheckPronounceability(name) ==
    With(AlphaOnly(name), LAMBDA alpha_name :
        IF alpha_name = <<>>
        THEN PronounceabilityResult(Thousandths(0), Thousandths(0), Thousandths(0),
                                    Thousandths(0), Thousandths(0))
        ELSE PronounceabilityScores(PronounceVowelRatio(alpha_name),
                                    PronounceClusterScore(alpha_name),
                                    PronouncePatternScore(alpha_name),
                                    PronounceLengthScore(name)))

(* the means of check_pronounceability_response over the per-name results *)
PronounceabilityMeans(per_name) ==
    PronounceabilityResult(
        MeanMilli([i \in DOMAIN per_name |-> per_name[i].vowel_ratio]),
        MeanMilli([i \in DOMAIN per_name |-> per_name[i].consonant_cluster_score]),
        MeanMilli([i \in DOMAIN per_name |-> per_name[i].pattern_score]),
        MeanMilli([i \in DOMAIN per_name |-> per_name[i].length_score]),
        MeanMilli([i \in DOMAIN per_name |-> per_name[i].overall]))

CheckPronounceabilityResponse(text) ==
    With(PronounceParseDomainNames(text), LAMBDA names :
        IF names = <<>>
        THEN PronounceabilityResult(Thousandths(0), Thousandths(0), Thousandths(0),
                                    Thousandths(0), Thousandths(0))
        ELSE PronounceabilityMeans([i \in DOMAIN names |-> CheckPronounceability(names[i])]))

---------------------------------------------------------------------------
(* premium_score *)

VALUABLE_WORDS ==
    {<<"g", "e", "t">>, <<"t", "r", "y">>, <<"g", "o">>, <<"m", "y">>,
     <<"t", "h", "e">>, <<"a", "p", "p">>, <<"h", "u", "b">>,
     <<"l", "a", "b">>, <<"b", "o", "x">>, <<"k", "i", "t">>,
     <<"p", "r", "o">>, <<"m", "a", "x">>, <<"t", "o", "p">>,
     <<"b", "e", "s", "t">>, <<"f", "a", "s", "t">>,
     <<"e", "a", "s", "y">>, <<"s", "m", "a", "r", "t">>,
     <<"s", "u", "p", "e", "r">>, <<"m", "e", "g", "a">>,
     <<"c", "l", "o", "u", "d">>, <<"d", "a", "t", "a">>,
     <<"c", "o", "d", "e">>, <<"d", "e", "v">>, <<"t", "e", "c", "h">>,
     <<"w", "e", "b">>, <<"n", "e", "t">>, <<"l", "i", "n", "k">>,
     <<"s", "y", "n", "c">>, <<"f", "l", "o", "w">>,
     <<"s", "t", "r", "e", "a", "m">>, <<"w", "a", "v", "e">>,
     <<"s", "p", "a", "r", "k">>, <<"b", "o", "l", "t">>,
     <<"f", "l", "a", "s", "h">>, <<"s", "w", "i", "f", "t">>,
     <<"q", "u", "i", "c", "k">>, <<"z", "e", "n">>,
     <<"n", "o", "v", "a">>, <<"p", "i", "x", "e", "l">>,
     <<"b", "y", "t", "e">>, <<"b", "i", "t">>, <<"n", "o", "d", "e">>,
     <<"m", "e", "s", "h">>, <<"g", "r", "i", "d">>,
     <<"s", "t", "a", "c", "k">>, <<"a", "i">>, <<"m", "l">>,
     <<"a", "p", "i">>, <<"i", "o">>, <<"f", "x">>, <<"h", "q">>,
     <<"o", "s">>, <<"u", "x">>, <<"u", "i">>}

VALUABLE_SUFFIXES ==
    {<<"l", "y">>, <<"i", "f", "y">>, <<"i", "o">>, <<"f", "y">>,
     <<"e", "r">>, <<"h", "u", "b">>, <<"l", "a", "b">>, <<"b", "o", "x">>,
     <<"h", "q">>, <<"a", "i">>, <<"a", "p", "p">>, <<"d", "e", "v">>,
     <<"p", "r", "o">>, <<"m", "a", "x">>, <<"a", "b", "l", "e">>,
     <<"f", "u", "l">>}

(* TLD_VALUES, in hundredths; a TLD that is not listed is worth 0.4 *)
TLD_VALUES ==
    (<<"c", "o", "m">> :> 100) @@
    (<<"i", "o">> :> 90) @@
    (<<"c", "o">> :> 85) @@
    (<<"a", "i">> :> 90) @@
    (<<"a", "p", "p">> :> 80) @@
    (<<"d", "e", "v">> :> 80) @@
    (<<"n", "e", "t">> :> 70) @@
    (<<"o", "r", "g">> :> 65) @@
    (<<"x", "y", "z">> :> 50) @@
    (<<"o", "n", "e">> :> 60) @@
    (<<"t", "e", "c", "h">> :> 70)

EasyChars == {"a", "b", "c", "d", "e", "f", "g", "h", "i", "j", "k", "l", "m", "n", "o", "p", "r", "s", "t", "u", "v", "w", "y"}

PremiumLengthScore(name) ==
    IF Len(name) <= 4 THEN One
    ELSE IF Len(name) <= 6 THEN Frac(9, 10)
    ELSE IF Len(name) <= 8 THEN Frac(7, 10)
    ELSE IF Len(name) <= 10 THEN Frac(5, 10)
    ELSE IF Len(name) <= 12 THEN Frac(4, 10)
    ELSE Frac(3, 10)

PremiumWordScore(name) ==
    LET name_lower == Lower(name)
        score == Plus(Frac(5, 10),
                 Plus(IF \E w \in VALUABLE_WORDS : Contains(name_lower, w)
                      THEN Frac(2, 10) ELSE Zero,
                 Plus(IF \E w \in VALUABLE_SUFFIXES : EndsWith(name_lower, w)
                      THEN Frac(15, 100) ELSE Zero,
                      IF IsAlpha(name_lower) /\ Len(name_lower) <= 8
                      THEN Frac(1, 10) ELSE Zero)))
    IN MinOf(score, One)

PremiumTldScore(tld) ==
    IF Lower(tld) \in DOMAIN TLD_VALUES THEN Frac(TLD_VALUES[Lower(tld)], 100) ELSE Frac(4, 10)

(* re.search(r'(.)\1{2,}', name): a character three or more times in a row *)
HasTripled(s) == \E i \in 1..(Len(s) - 2) : s[i] = s[i + 1] /\ s[i + 1] = s[i + 2]

(* name_lower[0] of an empty name: IndexError *)
PremiumPatternRaises(name) == name = <<>>

PremiumPatternScore(name) ==
    LET name_lower == Lower(name)
        score == Plus(Frac(5, 10),
                 Plus(IF IsAlpha(name_lower) THEN Frac(2, 10) ELSE Zero,
                 Plus(IF ~HasTripled(name_lower) THEN Frac(1, 10) ELSE Zero,
                 Plus(IF name_lower[1] \in Letters THEN Frac(1, 10) ELSE Zero,
                      IF "-" \notin Range(name_lower) THEN Frac(1, 10) ELSE Zero))))
    IN MinOf(score, One)

(* sum(...) / len(name_lower) of an empty name: ZeroDivisionError *)
MemorabilityRaises(name) == Len(name) = 0

CalculateMemorabilityScore(name) ==
    LET name_lower == Lower(name)
        char_ease == Frac(Len(SelectSeq(name_lower, LAMBDA c : c \in EasyChars)), Len(name_lower))
        score == Plus(Frac(5, 10),
                 Plus(IF Len(name_lower) <= 7 THEN Frac(2, 10) ELSE Zero,
                 Plus(IF \E i \in DOMAIN name_lower : name_lower[i] \in PlainVowels
                      THEN Frac(1, 10) ELSE Zero,
                 Plus(IF CountRuns(name_lower, 1, RareConsonants, 2) = 0
                      THEN Frac(1, 10) ELSE Zero,
                      Times(char_ease, Frac(1, 10))))))
    IN MinOf(score, One)

PremiumResult(length, word, tld, pattern, memorability, overall) ==
    [length_score |-> length, word_score |-> word, tld_score |-> tld,
     pattern_score |-> pattern, memorability_score |-> memorability, overall |-> overall]

(* the weighted overall and the rounded fields of check_premium *)
PremiumScores(length_score, word_score, tld_score, pattern_score, memorability_score) ==
    PremiumResult(Round3(length_score), Round3(word_score), Round3(tld_score),
                  Round3(pattern_score), Round3(memorability_score),
                  Round3(Plus(Times(length_score, Frac(25, 100)),
                         Plus(Times(word_score, Frac(20, 100)),
                         Plus(Times(tld_score, Frac(20, 100)),
                         Plus(Times(pattern_score, Frac(15, 100)),
                              Times(memorability_score, Frac(20, 100))))))))

CheckPremium(name, tld) ==
    PremiumScores(PremiumLengthScore(name), PremiumWordScore(name), PremiumTldScore(tld),
                  PremiumPatternScore(name), CalculateMemorabilityScore(name))

(* the means of check_premium_response over the per-domain results *)
PremiumMeans(per_name) ==
    PremiumResult(
        MeanMilli([i \in DOMAIN per_name |-> per_name[i].length_score]),
        MeanMilli([i \in DOMAIN per_name |-> per_name[i].word_score]),
        MeanMilli([i \in DOMAIN per_name |-> per_name[i].tld_score]),
        MeanMilli([i \in DOMAIN per_name |-> per_name[i].pattern_score]),
        MeanMilli([i \in DOMAIN per_name |-> per_name[i].memorability_score]),
        MeanMilli([i \in DOMAIN per_name |-> per_name[i].overall]))

CheckPremiumResponse(text) ==
    With(PremiumParseDomains(text), LAMBDA found :
        IF found = <<>> THEN PremiumResult(Thousandths(0), Thousandths(0), Thousandths(0),
                                 Thousandths(0), Thousandths(0), Thousandths(0))
        ELSE PremiumMeans([i \in DOMAIN found |-> CheckPremium(found[i][1], found[i][2])]))

---------------------------------------------------------------------------
(* constraint_satisfaction *)

(* A prompt is kept as the constraint clauses written in it; each          *)
(* extractor returns None (no element) or the value of its clause.         *)
None == <<>>

Some(v) == <<v>>

Prompt(length, tlds, include, start, end, count) ==
    [length |-> length, tlds |-> tlds, include |-> include, start |-> start,
     end |-> end, count |-> count]

ExtractLengthConstraint(prompt) == prompt.length

ExtractTldConstraint(prompt) == prompt.tlds

ExtractCountConstraint(prompt) == prompt.count

(* "must start with" overrides "must include" as the prefix *)
ExtractPrefixSuffixConstraint(prompt) ==
    [prefix |-> IF prompt.start # None THEN prompt.start ELSE prompt.include,
     suffix |-> prompt.end]

CountOf(items, ok(_)) == Len(SelectSeq(items, ok))

(* mutant: the tolerance band has no lower edge *)
CountSatisfiedNoBand(found, count_constraint) ==
    IF count_constraint # None /\ count_constraint[1] # 0
    THEN LET ratio == Frac(found, count_constraint[1])
         IN IF Leq(ratio, Frac(12, 10)) THEN Times(ratio, Frac(10, 8))
            ELSE Times(Frac(12, 10), Frac(ratio.d, ratio.n))
    ELSE One

(* the count clause of check_constraints; a target of 0 is falsy *)
CountSatisfied(found, count_constraint) ==
    IF count_constraint # None /\ count_constraint[1] # 0
    THEN LET ratio == Frac(found, count_constraint[1])
         IN IF Leq(Frac(8, 10), ratio) /\ Leq(ratio, Frac(12, 10)) THEN One
            ELSE IF Less(ratio, Frac(8, 10)) THEN Times(ratio, Frac(10, 8))
            ELSE Times(Frac(12, 10), Frac(ratio.d, ratio.n))
    ELSE One

ConstraintResult(length, tld, prefix_suffix, count, overall) ==
    [length_satisfied |-> length, tld_satisfied |-> tld,
     prefix_suffix_satisfied |-> prefix_suffix, count_satisfied |-> count,
     overall |-> overall]

(* mutant: with no domain nothing is violated, so everything is satisfied *)
NoDomainsVacuouslySatisfied ==
    ConstraintResult(Thousandths(1000), Thousandths(1000), Thousandths(1000),
                     Thousandths(1000), Thousandths(1000))

(* the result of check_constraints when no domain is extracted *)
NoDomainsResult ==
    ConstraintResult(Thousandths(0), Thousandths(0), Thousandths(0),
                     Thousandths(0), Thousandths(0))

(* the share of the domains whose name length is within the asked range *)
LengthSatisfied(found, length_constraint) ==
    IF length_constraint # None
    THEN Frac(CountOf(found, LAMBDA d :
                  /\ length_constraint[1][1] <= Len(d[1])
                  /\ Len(d[1]) <= length_constraint[1][2]), Len(found))
    ELSE One

(* mutant: without a TLD constraint no domain is in the asked TLDs *)
TldSatisfiedUndeclaredZero(found, tld_constraint) ==
    IF tld_constraint # None
    THEN Frac(CountOf(found, LAMBDA d : d[2] \in Range(tld_constraint[1])), Len(found))
    ELSE Zero

(* the share of the domains whose TLD is one of those asked for *)
TldSatisfied(found, tld_constraint) ==
    IF tld_constraint # None
    THEN Frac(CountOf(found, LAMBDA d : d[2] \in Range(tld_constraint[1])), Len(found))
    ELSE One

(* mutant: a domain that passes both tests is counted twice *)
PrefixSuffixSatisfiedTwice(found, ps) ==
    IF ps.prefix # None \/ ps.suffix # None
    THEN Frac(CountOf(found, LAMBDA d : ps.prefix # None /\ Contains(d[1], ps.prefix[1]))
                  + CountOf(found, LAMBDA d : ps.suffix # None /\ EndsWith(d[1], ps.suffix[1])),
              Len(found))
    ELSE One

(* the share of the domains that carry the asked prefix or suffix *)
PrefixSuffixSatisfied(found, ps) ==
    IF ps.prefix # None \/ ps.suffix # None
    THEN Frac(CountOf(found, LAMBDA d :
                  \/ (ps.prefix # None /\ Contains(d[1], ps.prefix[1]))
                  \/ (ps.suffix # None /\ EndsWith(d[1], ps.suffix[1]))),
              Len(found))
    ELSE One

(* the overall and the rounded fields of check_constraints *)
ConstraintScores(length_satisfied, tld_satisfied, prefix_suffix_satisfied, count_satisfied) ==
    ConstraintResult(Round3(length_satisfied), Round3(tld_satisfied),
        Round3(prefix_suffix_satisfied), Round3(count_satisfied),
        Round3(Over(Plus(length_satisfied, Plus(tld_satisfied,
                    Plus(prefix_suffix_satisfied, count_satisfied))), 4)))

CheckConstraints(prompt, text) ==
    With(ParseDomainsFromResponse(text), LAMBDA found :
        IF found = <<>> THEN NoDomainsResult
        ELSE ConstraintScores(
                 LengthSatisfied(found, ExtractLengthConstraint(prompt)),
                 TldSatisfied(found, ExtractTldConstraint(prompt)),
                 PrefixSuffixSatisfied(found, ExtractPrefixSuffixConstraint(prompt)),
                 CountSatisfied(Len(found), ExtractCountConstraint(prompt))))

---------------------------------------------------------------------------
(* The four rubric scorers on one sample *)

MaxNames == 2

MaxFound == 12

MaxTarget == 5

(* The domains responses are made of: one-character names, a name of a     *)
(* digit, a name of a hyphen, the names of the modules' own examples, and  *)
(* a name that uses all 37 characters a name can have.                     *)
DomainPool ==
    <<<<<<"a">>, <<"c", "o", "m">>>>,
      <<<<"7">>, <<"i", "o">>>>,
      <<<<"-">>, <<"x", "y", "z">>>>,
      <<<<"n", "o", "v", "a">>, <<"c", "o", "m">>>>,
      <<<<"g", "e", "t", "a", "p", "p">>, <<"i", "o">>>>,
      <<<<"x", "k", "q", "z", "p", "t", "m">>, <<"a", "i">>>>,
      <<<<"a", "a", "a", "a", "e", "e", "e", "e">>, <<"c", "o">>>>,
      <<<<"a", "b", "c", "d", "e", "f", "g", "h", "i", "j", "k", "l", "m", "n", "o", "p", "q", "r", "s", "t", "u", "v", "w", "x", "y", "z", "0", "1", "2", "3", "4", "5", "6", "7", "8", "9", "-">>, <<"c", "o", "m">>>>,
      <<<<"s", "u", "p", "e", "r", "l", "o", "n", "g", "d", "o", "m", "a", "i", "n", "n", "a", "m", "e">>, <<"x", "y", "z">>>>,
      <<<<"x", "x", "9", "-", "b", "r", "e", "w", "l", "y">>, <<"o", "n", "e">>>>>>

(* one line of a response: "- name.tld (em dash) ok" and a newline *)
RenderLine(d) ==
    <<"-", " ">> \o d[1] \o <<".">> \o d[2] \o <<" ", "em-dash", " ", "o", "k", "\n">>

Render(ds) == Extend([i \in DOMAIN ds |-> RenderLine(ds[i])])

(* the first k domains of the pool, taken round and round *)
Roster(k) == [i \in 1..k |-> DomainPool[((i - 1) % Len(DomainPool)) + 1]]

(* the domains that are combined in every order: all but the three longer *)
(* example names, which the rosters bring in                               *)
CorePool == {d \in Range(DomainPool) : Len(d[1]) <= 8 \/ Len(d[1]) > 30} \ {DomainPool[5]}

(* k lines that all name nova.com *)
Copies(k) == [i \in 1..k |-> DomainPool[4]]

DomainLists ==
    UNION {[1..n -> CorePool] : n \in 0..MaxNames}
        \cup {Roster(k) : k \in 0..MaxFound}
        \cup {Copies(k) : k \in 0..MaxFound}

NoConstraint == Prompt(None, None, None, None, None, None)

(* Generate 6 ... Length 4-10. Must include "nova". Use TLDs: .com, .one, .ai. *)
TestPrompt ==
    Prompt(Some(<<4, 10>>), Some(<<<<"c", "o", "m">>, <<"o", "n", "e">>, <<"a", "i">>>>),
           Some(<<"n", "o", "v", "a">>), None, None, Some(6))

(* Length 1-1. Must start with "a". Must end with "7". *)
StartEndPrompt == Prompt(Some(<<1, 1>>), None, Some(<<"z", "z">>), Some(<<"a">>), Some(<<"7">>), None)

(* Generate t names. *)
CountPrompt(t) == Prompt(None, None, None, None, None, Some(t))

(* Must include "o". Must end with "a". *)
IncludeEndPrompt == Prompt(None, None, Some(<<"o">>), None, Some(<<"a">>), None)

(* Must end with "a". *)
EndPrompt == Prompt(None, None, None, None, Some(<<"a">>), None)

Prompts ==
    {NoConstraint, TestPrompt, StartEndPrompt, IncludeEndPrompt, EndPrompt}
        \cup {CountPrompt(t) : t \in 0..MaxTarget}

(* A sample: its prompt, its response, and (not read by any scorer) the    *)
(* domain lines the response was written with.                             *)
Sample(prompt, text, lines) == [prompt |-> prompt, response |-> text, lines |-> lines]

RubricSamples ==
    {Sample(p, Render(ds), ds) : p \in Prompts, ds \in DomainLists}
        \cup {Sample(p, NoSeparator, <<>>) : p \in Prompts}

InitRubric ==
    /\ MainIdle
    /\ PairIdle
    /\ ParseIdle /\ CalcIdle /\ ReportIdle /\ CompareIdle /\ TurnIdle
    /\ sample \in RubricSamples
    /\ rubrics = NoRubrics

Scored(rubric, result) ==
    /\ Len(ParserOrder) > Cardinality(DOMAIN rubrics)
    /\ ParserOrder[Cardinality(DOMAIN rubrics) + 1] = rubric
    /\ rubrics' = (rubric :> result) @@ rubrics
    /\ UNCHANGED <<sample, mainVars, pairVars, parseVars, calcVars, reportVars, compareVars, turnVars>>

ScoreConstraints == Scored("constraint", CheckConstraints(sample.prompt, sample.response))

ScoreDiversity == Scored("diversity", CheckDiversity(sample.response))

ScorePronounceability == Scored("pronounceability", CheckPronounceabilityResponse(sample.response))

ScorePremium == Scored("premium", CheckPremiumResponse(sample.response))

NextRubric == ScoreConstraints \/ ScoreDiversity \/ ScorePronounceability \/ ScorePremium

SpecRubric == InitRubric /\ [][NextRubric]_vars


---------------------------------------------------------------------------
(* The calculators called on their own: one call, one outcome *)

(* names a calculator can be handed: empty, of one, two, three and four    *)
(* characters, and one with a rare pair                                    *)
CalcNames ==
    {<<>>, <<"a">>, <<"a", "b">>, <<"a", "b", "c">>, <<"n", "o", "v", "a">>, <<"x", "q", "7">>}

CalcNameLists == UNION {[1..n -> CalcNames] : n \in 0..MaxNames}

MaxCount == 3

(* what asyncio.gather hands to the blend for each judge of the judges     *)
(* argument: one, the other, both, or an empty dict of judges              *)
GatheredResults ==
    UNION {[js -> {RaisedException, NeutralVerdict, GoodVerdict, MissingKey, ExtraKey,
                   BareNumber}] : js \in SUBSET Range(JudgeOrder)}

(* the names of the corpora: eleven names that differ in their first      *)
(* letter, two that share their first three, and one of two letters       *)
CorpusPool ==
    [i \in 1..11 |-> <<<<"b", "c", "d", "f", "g", "h", "j", "k", "l", "m", "p">>[i], "o", "x">>]
        \o <<<<"n", "o", "v", "a">>, <<"n", "o", "v", "o">>, <<"a", "b">>>>

MaxExtra == 2

(* the first names of the pool, followed by up to MaxExtra names again *)
NameCorpora ==
    {SubSeq(CorpusPool, 1, b) \o extra :
        b \in 0..Len(CorpusPool),
        extra \in UNION {[1..n -> {CorpusPool[1], CorpusPool[11], CorpusPool[12],
                                    CorpusPool[13], CorpusPool[14]}] : n \in 0..MaxExtra}}

(* names with digits and hyphens in them, some with the same letters and   *)
(* the same length, some with no letter                                    *)
PronounceNames ==
    {<<"n", "o", "v", "a">>, <<"n", "o">>, <<"n", "1", "2", "3", "o">>, <<"n", "-", "4", "-", "o">>,
     <<"n", "o", "1", "2", "3">>, <<"1", "2", "3">>, <<"7">>, <<"-">>, <<>>,
     <<"b", "c", "1", "d", "f">>, <<"b", "c", "d", "f">>, <<"b", "c", "d", "f", "-">>,
     <<"x", "x", "9", "-", "b", "r", "e", "w", "l", "y">>,
     <<"x", "x", "9", "9", "9", "9", "b", "r", "e", "w", "l", "y", "-", "-", "-", "-">>}

CalcCall(fn, args) == [fn |-> fn, args |-> args]

CalcCalls ==
    {CalcCall(fn, ns) : fn \in {"calculate_ttr", "calculate_duplicate_rate",
                            "calculate_char_diversity", "calculate_prefix_diversity",
                            "calculate_suffix_diversity"},
                    ns \in CalcNameLists}
        \cup {CalcCall("count_satisfied", <<k, t>>) : k \in 1..MaxCount, t \in 0..MaxCount}
        \cup {CalcCall("score_candidate", res) : res \in GatheredResults}
        \cup {CalcCall("calculate_memorability_score", nm) : nm \in CalcNames}
        \cup {CalcCall("evaluate_cross_batch_diversity", c) : c \in NameCorpora}
        \cup {CalcCall("check_pronounceability", nm) : nm \in PronounceNames}

InitCalc ==
    /\ MainIdle
    /\ PairIdle
    /\ ParseIdle /\ RubricIdle /\ ReportIdle /\ CompareIdle /\ TurnIdle
    /\ calcArgs \in CalcCalls
    /\ calcOut = NotCalled

Returned(value) == [done |-> TRUE, raised |-> FALSE, value |-> value]

Raised(exception) == [done |-> TRUE, raised |-> TRUE, value |-> exception]

Calls(fn, outcome) ==
    /\ calcOut = NotCalled
    /\ calcArgs.fn = fn
    /\ calcOut' = outcome
    /\ UNCHANGED <<calcArgs, mainVars, pairVars, parseVars, rubricVars, reportVars, compareVars, turnVars>>

CallCalculateTtr == Calls("calculate_ttr", Returned(CalculateTtr(calcArgs.args)))

CallCalculateDuplicateRate ==
    Calls("calculate_duplicate_rate", Returned(CalculateDuplicateRate(calcArgs.args)))

CallCalculateCharDiversity ==
    Calls("calculate_char_diversity", Returned(CalculateCharDiversity(calcArgs.args)))

CallCalculatePrefixDiversity ==
    Calls("calculate_prefix_diversity", Returned(CalculatePrefixDiversity(calcArgs.args)))

CallCalculateSuffixDiversity ==
    Calls("calculate_suffix_diversity", Returned(CalculateSuffixDiversity(calcArgs.args)))

(* the count clause of check_constraints for args[1] domains, target args[2] *)
CallCountSatisfied ==
    Calls("count_satisfied", Returned(CountSatisfied(calcArgs.args[1], Some(calcArgs.args[2]))))

(* the blend of score_candidate over the judges that were asked *)
CallScoreCandidate ==
    LET judges == SelectSeq(JudgeOrder, LAMBDA j : j \in DOMAIN calcArgs.args)
    IN Calls("score_candidate",
             IF BlendRaises(calcArgs.args, judges)
             THEN Raised("AttributeError")
             ELSE Returned(DomainCandidate("a.com", BlendedScores(calcArgs.args, judges))))

CallCalculateMemorabilityScore ==
    Calls("calculate_memorability_score",
          IF MemorabilityRaises(calcArgs.args)
          THEN Raised("ZeroDivisionError")
          ELSE Returned(CalculateMemorabilityScore(calcArgs.args)))

CallEvaluateCrossBatchDiversity ==
    Calls("evaluate_cross_batch_diversity", Returned(EvaluateCrossBatchDiversity(calcArgs.args)))

CallCheckPronounceability ==
    Calls("check_pronounceability", Returned(CheckPronounceability(calcArgs.args)))

NextCalc ==
    \/ CallCalculateTtr
    \/ CallCalculateDuplicateRate
    \/ CallCalculateCharDiversity
    \/ CallCalculatePrefixDiversity
    \/ CallCalculateSuffixDiversity
    \/ CallCountSatisfied
    \/ CallScoreCandidate
    \/ CallCalculateMemorabilityScore
    \/ CallEvaluateCrossBatchDiversity
    \/ CallCheckPronounceability

SpecCalc == InitCalc /\ [][NextCalc]_vars


---------------------------------------------------------------------------
(* evaluate_batch of the four modules, evaluate_cross_batch_diversity and  *)
(* the two aggregation entry points                                         *)

MaxBatch == 3

(* the samples a batch is made of: a response without a domain, one        *)
(* domain, two domains under the example prompt, the same domain twice     *)
(* under a count, and the name of all 37 characters                        *)
ReportSamples ==
    {Sample(NoConstraint, NoSeparator, <<>>),
     Sample(NoConstraint, Render(<<DomainPool[1]>>), <<DomainPool[1]>>),
     Sample(TestPrompt, Render(<<DomainPool[4], DomainPool[5]>>), <<DomainPool[4], DomainPool[5]>>),
     Sample(CountPrompt(5), Render(<<DomainPool[4], DomainPool[4]>>), <<DomainPool[4], DomainPool[4]>>),
     Sample(StartEndPrompt, Render(<<DomainPool[8]>>), <<DomainPool[8]>>)}

Batches == UNION {[1..n -> ReportSamples] : n \in 1..MaxBatch}

(* what the loops of the evaluate_batch functions compute for one sample *)
Evaluated ==
    [s \in ReportSamples |->
        [constraint       |-> CheckConstraints(s.prompt, s.response),
         diversity        |-> CheckDiversity(s.response),
         pronounceability |-> CheckPronounceabilityResponse(s.response),
         premium          |-> CheckPremiumResponse(s.response),
         names            |-> DiversityParseDomainNames(s.response)]]

(* results: the list the loop of an evaluate_batch function builds *)
PerSample(batch) == [i \in DOMAIN batch |-> Evaluated[batch[i]]]

(* round(sum(r.field for r in results) / n, 3) *)
Avg(per_sample, rubric, field) ==
    MeanMilli([i \in DOMAIN per_sample |-> per_sample[i][rubric][field]])

EvalConstraints(per_sample) ==
    [num_samples |-> Len(per_sample),
     avg_length_satisfied |-> Avg(per_sample, "constraint", "length_satisfied"),
     avg_tld_satisfied |-> Avg(per_sample, "constraint", "tld_satisfied"),
     avg_prefix_suffix_satisfied |-> Avg(per_sample, "constraint", "prefix_suffix_satisfied"),
     avg_count_satisfied |-> Avg(per_sample, "constraint", "count_satisfied"),
     avg_overall |-> Avg(per_sample, "constraint", "overall")]

EvalDiversity(per_sample) ==
    [num_samples |-> Len(per_sample),
     avg_type_token_ratio |-> Avg(per_sample, "diversity", "type_token_ratio"),
     avg_duplicate_rate |-> Avg(per_sample, "diversity", "duplicate_rate"),
     avg_char_diversity |-> Avg(per_sample, "diversity", "char_diversity"),
     avg_prefix_diversity |-> Avg(per_sample, "diversity", "prefix_diversity"),
     avg_suffix_diversity |-> Avg(per_sample, "diversity", "suffix_diversity"),
     avg_overall |-> Avg(per_sample, "diversity", "overall")]

EvalPronounceability(per_sample) ==
    [num_samples |-> Len(per_sample),
     avg_vowel_ratio |-> Avg(per_sample, "pronounceability", "vowel_ratio"),
     avg_consonant_cluster_score |-> Avg(per_sample, "pronounceability", "consonant_cluster_score"),
     avg_pattern_score |-> Avg(per_sample, "pronounceability", "pattern_score"),
     avg_length_score |-> Avg(per_sample, "pronounceability", "length_score"),
     avg_overall |-> Avg(per_sample, "pronounceability", "overall")]

EvalPremium(per_sample) ==
    [num_samples |-> Len(per_sample),
     avg_length_score |-> Avg(per_sample, "premium", "length_score"),
     avg_word_score |-> Avg(per_sample, "premium", "word_score"),
     avg_tld_score |-> Avg(per_sample, "premium", "tld_score"),
     avg_pattern_score |-> Avg(per_sample, "premium", "pattern_score"),
     avg_memorability_score |-> Avg(per_sample, "premium", "memorability_score"),
     avg_overall |-> Avg(per_sample, "premium", "overall")]

(* all_names.extend(parse_domain_names(sample['response'])) per sample *)
AllNames(per_sample) == Extend([i \in DOMAIN per_sample |-> per_sample[i].names])

(* cross_diversity["total_names"] of a dict that has no such key *)
CrossBatchRaises(cross_diversity) == "total_names" \notin DOMAIN cross_diversity

(* c * 0.30 + d * 0.20 + p * 0.25 + m * 0.25 on means in thousandths *)
Weighted(c, d, p, m, wc, wd, wp, wm) ==
    [lo |-> Round3(Frac(wc * c.lo + wd * d.lo + wp * p.lo + wm * m.lo, 100000)).lo,
     hi |-> Round3(Frac(wc * c.hi + wd * d.hi + wp * p.hi + wm * m.hi, 100000)).hi]

(* evaluate_dataset: round(combined_score, 3) *)
DatasetCombinedScore(c, d, p, m) == Weighted(c, d, p, m, 30, 20, 25, 25)

(* mutant: evaluate_results weighs the four rubrics equally *)
ResultsCombinedScoreEqualWeights(c, d, p, m) == Weighted(c, d, p, m, 25, 25, 25, 25)

(* evaluate_results: round(combined, 3) *)
ResultsCombinedScore(c, d, p, m) == Weighted(c, d, p, m, 30, 20, 25, 25)

KeyError(entry) == [done |-> TRUE, raised |-> TRUE, entry |-> entry, exception |-> "KeyError"]

Report(entry, per_sample, combined_score) ==
    [done |-> TRUE, raised |-> FALSE, entry |-> entry,
     num_samples |-> Len(per_sample),
     constraints |-> EvalConstraints(per_sample),
     diversity |-> EvalDiversity(per_sample),
     cross_batch_diversity |-> EvaluateCrossBatchDiversity(AllNames(per_sample)),
     pronounceability |-> EvalPronounceability(per_sample),
     premium |-> EvalPremium(per_sample),
     combined_score |-> combined_score]

InitReport ==
    /\ MainIdle
    /\ PairIdle
    /\ ParseIdle /\ CalcIdle /\ RubricIdle /\ CompareIdle /\ TurnIdle
    /\ samples \in Batches
    /\ report = NotCalled

(* what evaluate_dataset returns or raises, given the per-sample results *)
DatasetReport(per_sample) ==
    IF CrossBatchRaises(EvaluateCrossBatchDiversity(AllNames(per_sample)))
    THEN KeyError("evaluate_dataset")
    ELSE Report("evaluate_dataset", per_sample,
                DatasetCombinedScore(EvalConstraints(per_sample).avg_overall,
                                     EvalDiversity(per_sample).avg_overall,
                                     EvalPronounceability(per_sample).avg_overall,
                                     EvalPremium(per_sample).avg_overall))

(* what evaluate_results returns or raises, given the per-sample results *)
ResultsReport(per_sample) ==
    IF CrossBatchRaises(EvaluateCrossBatchDiversity(AllNames(per_sample)))
    THEN KeyError("evaluate_results")
    ELSE Report("evaluate_results", per_sample,
                ResultsCombinedScore(EvalConstraints(per_sample).avg_overall,
                                     EvalDiversity(per_sample).avg_overall,
                                     EvalPronounceability(per_sample).avg_overall,
                                     EvalPremium(per_sample).avg_overall))

EvaluateDataset ==
    /\ report = NotCalled
    /\ report' = DatasetReport(PerSample(samples))
    /\ UNCHANGED <<samples, mainVars, pairVars, parseVars, calcVars, rubricVars, compareVars, turnVars>>

EvaluateResults ==
    /\ report = NotCalled
    /\ report' = ResultsReport(PerSample(samples))
    /\ UNCHANGED <<samples, mainVars, pairVars, parseVars, calcVars, rubricVars, compareVars, turnVars>>

NextReport == EvaluateDataset \/ EvaluateResults

SpecReport == InitReport /\ [][NextReport]_vars


---------------------------------------------------------------------------
(* compare_results and compare_with_baseline *)

(* the five compared numbers of a result file: avg_overall of the four     *)
(* rubric reports, and combined_score                                      *)
Metrics == <<"constraints", "diversity", "pronounceability", "premium", "combined_score">>

(* json.load gives whatever number the file holds: values are counted in   *)
(* half thousandths, so that two of them can differ by less than 0.001     *)
HalfThousandth == 2

MaxValue == 3

Values == 0..MaxValue

(* the first file holds the same number in every field *)
ResultFiles ==
    {[r1 |-> [f \in Range(Metrics) |-> v], r2 |-> r, baseline_exists |-> e] :
        v \in Values, r \in [Range(Metrics) -> Values], e \in BOOLEAN}

InitCompare ==
    /\ MainIdle
    /\ PairIdle
    /\ ParseIdle /\ CalcIdle /\ RubricIdle /\ ReportIdle /\ TurnIdle
    /\ cmpFiles \in ResultFiles
    /\ cmpOut = NotCalled

(* "up" if diff > 0 else "down" if diff < 0 else "=" *)
ResultsArrow(v1, v2) ==
    LET diff == v2 - v1
    IN IF diff > 0 THEN "up" ELSE IF diff < 0 THEN "down" ELSE "="

(* "up" if diff > 0.001 else "down" if diff < -0.001 else "=": the arrows  *)
(* the line can print.  A difference of exactly one thousandth is a float  *)
(* that lies on either side of the float 0.001, depending on the values.   *)
BaselineArrows(v1, v2) ==
    LET diff == v2 - v1
    IN IF diff > HalfThousandth THEN {"up"}
       ELSE IF diff = HalfThousandth THEN {"up", "="}
       ELSE IF diff < -HalfThousandth THEN {"down"}
       ELSE IF diff = -HalfThousandth THEN {"down", "="}
       ELSE {"="}

Compared(routine, arrows) == [done |-> TRUE, routine |-> routine, arrows |-> arrows]

NoArrows == [f \in {} |-> "="]

CompareResults ==
    /\ cmpOut = NotCalled
    /\ cmpOut' = Compared("compare_results",
                    [f \in Range(Metrics) |-> ResultsArrow(cmpFiles.r1[f], cmpFiles.r2[f])])
    /\ UNCHANGED <<cmpFiles, mainVars, pairVars, parseVars, calcVars, rubricVars, reportVars, turnVars>>

(* r1 is the baseline file, r2 the results; without a baseline file the    *)
(* routine returns before comparing                                        *)
CompareWithBaseline ==
    /\ cmpOut = NotCalled
    /\ IF ~cmpFiles.baseline_exists
       THEN cmpOut' = Compared("compare_with_baseline", NoArrows)
       ELSE \E arrows \in [Range(Metrics) -> {"up", "down", "="}] :
               /\ \A f \in Range(Metrics) :
                      arrows[f] \in BaselineArrows(cmpFiles.r1[f], cmpFiles.r2[f])
               /\ cmpOut' = Compared("compare_with_baseline", arrows)
    /\ UNCHANGED <<cmpFiles, mainVars, pairVars, parseVars, calcVars, rubricVars, reportVars, turnVars>>

NextCompare == CompareResults \/ CompareWithBaseline

SpecCompare == InitCompare /\ [][NextCompare]_vars

---------------------------------------------------------------------------
(* One prompt of main's loop, from the responses as text: the extraction  *)
(* of the domains, the candidate list, and the scoring of each candidate  *)

RECURSIVE LStrip(_, _)
LStrip(s, chars) == IF s # <<>> /\ Head(s) \in chars THEN LStrip(Tail(s), chars) ELSE s

RECURSIVE RStrip(_, _)
RStrip(s, chars) ==
    IF s # <<>> /\ s[Len(s)] \in chars THEN RStrip(SubSeq(s, 1, Len(s) - 1), chars) ELSE s

(* str.strip(chars) *)
StripChars(s, chars) == RStrip(LStrip(s, chars), chars)

(* str.strip() *)
Strip(s) == StripChars(s, {" ", "\n", "\t"})

(* str.startswith *)
StartsWith(s, w) == Len(s) >= Len(w) /\ SubSeq(s, 1, Len(w)) = w

(* where w first occurs in s, which contains it *)
Find(s, w) ==
    CHOOSE i \in 1..(Len(s) - Len(w) + 1) :
        /\ SubSeq(s, i, i + Len(w) - 1) = w
        /\ \A j \in 1..(i - 1) : SubSeq(s, j, j + Len(w) - 1) # w

(* s.split(w)[0] and s.split(w, 1)[1] *)
Before(s, w) == SubSeq(s, 1, Find(s, w) - 1)

After(s, w) == SubSeq(s, Find(s, w) + Len(w), Len(s))

(* s.split("\n") *)
RECURSIVE SplitLines(_)
SplitLines(s) ==
    IF ~Contains(s, <<"\n">>) THEN <<s>>
    ELSE <<Before(s, <<"\n">>)>> \o SplitLines(After(s, <<"\n">>))

(* a leading "1." or "12." is cut off *)
Unnumbered(line) ==
    IF Head(line) \in Digits /\ "." \in Range(SubSeq(line, 1, Min(3, Len(line))))
    THEN Strip(After(line, <<".">>))
    ELSE line

(* a leading "-" is cut off *)
Unbulleted(line) == IF StartsWith(line, <<"-">>) THEN Strip(Tail(line)) ELSE line

(* what follows " - " or " (" is cut off *)
Undescribed(line, mark) == IF Contains(line, mark) THEN Strip(Before(line, mark)) ELSE line

(* the domain part of a line that is neither empty nor a header *)
CleanLine(line) ==
    Strip(StripChars(StripChars(
        Undescribed(Undescribed(Unbulleted(Unnumbered(line)), <<" ", "-", " ">>), <<" ", "(">>),
        {"*"}), {"backtick"}))

MaxDomainLen == 50

MaxPerResponse == 10

(* the lines of a response that survive the loop, cleaned *)
RECURSIVE ExtractLines(_)
ExtractLines(lines) ==
    IF lines = <<>> THEN <<>>
    ELSE With(Strip(Head(lines)), LAMBDA line :
        IF line = <<>> \/ StartsWith(line, <<"#">>) \/ StartsWith(line, <<"H", "e", "r", "e">>)
        THEN ExtractLines(Tail(lines))
        ELSE With(CleanLine(line), LAMBDA domain :
            IF domain # <<>> /\ "." \in Range(domain) /\ Len(domain) < MaxDomainLen
            THEN <<domain>> \o ExtractLines(Tail(lines))
            ELSE ExtractLines(Tail(lines))))

ExtractDomainsFromResponse(text) ==
    With(ExtractLines(SplitLines(Strip(text))), LAMBDA found :
        SubSeq(found, 1, Min(MaxPerResponse, Len(found))))

DigitChars == <<"0", "1", "2", "3", "4", "5", "6", "7", "8", "9">>

(* the decimal numeral of a number below 100 *)
Numeral(i) ==
    IF i < 10 THEN <<DigitChars[i + 1]>> ELSE <<DigitChars[(i \div 10) + 1], DigitChars[(i % 10) + 1]>>

(* "3. nova.com - ok" *)
NumberedLine(i, d) == Numeral(i) \o <<".", " ">> \o d[1] \o <<".">> \o d[2] \o <<" ", "-", " ", "o", "k", "\n">>

(* "- **nova.com** (free)" *)
BulletLine(d) ==
    <<"-", " ", "*", "*">> \o d[1] \o <<".">> \o d[2] \o <<"*", "*", " ", "(", "f", "r", "e", "e", ")", "\n">>

(* the names a response is written with: nova, getapp, aaaaeeee and, with *)
(* a larger candidate list, the next of the pool                          *)
TurnPool == SubSeq(DomainPool, 4, 4 + CandidatesPerPrompt * 2)

(* a numbered list of k lines that goes round the pool, under a header *)
NumberedResponse(k) ==
    <<"H", "e", "r", "e", ":", "\n">>
        \o Extend([i \in 1..k |-> NumberedLine(i, TurnPool[((i - 1) % Len(TurnPool)) + 1])])

(* a bulleted list of the first k names of the pool, the first one twice *)
BulletResponse(k) ==
    <<"#", " ", "N", "a", "m", "e", "s", "\n", "\n">>
        \o Extend([i \in 1..k |-> BulletLine(TurnPool[i])]) \o BulletLine(TurnPool[1])

LongList == 12

Responses ==
    {<<>>, <<"n", "o", " ", "d", "o", "t">>, NumberedResponse(1), NumberedResponse(LongList),
     BulletResponse(1), BulletResponse(Len(TurnPool))}

(* candidates_text: one response or two *)
CandidateTexts == {<<r>> : r \in Responses} \cup {<<r, q>> : r, q \in Responses}

InitTurn ==
    /\ MainIdle
    /\ PairIdle
    /\ ParseIdle /\ CalcIdle /\ RubricIdle /\ ReportIdle /\ CompareIdle
    /\ texts \in [candidates_text : CandidateTexts, judge : JudgeArgs]
    /\ turn = NotCalled

Turn(stage, extracted, all_domains, scored_candidates, calls) ==
    [done |-> TRUE, stage |-> stage, extracted |-> extracted, all_domains |-> all_domains,
     scored |-> scored_candidates, calls |-> calls]

(* the prompt loop from the extraction to the test of len(all_domains) *)
SelectCandidates ==
    /\ turn = NotCalled
    /\ \E order \in Perms(Range(Extend([i \in DOMAIN texts.candidates_text |->
                                    ExtractDomainsFromResponse(texts.candidates_text[i])]))) :
          turn' = With([i \in DOMAIN texts.candidates_text |->
                            ExtractDomainsFromResponse(texts.candidates_text[i])],
                       LAMBDA extracted :
                           With(DedupAndLimit(Extend(extracted), order), LAMBDA all_domains :
                               Turn(IF Len(all_domains) < 2 THEN "skipped" ELSE "scoring",
                                    extracted, all_domains, <<>>, 0)))
    /\ UNCHANGED <<texts, mainVars, pairVars, parseVars, calcVars, rubricVars, reportVars, compareVars>>

(* score_candidate for the next domain: one call per active judge, and the *)
(* append to scored_candidates                                             *)
ScoreNext ==
    /\ turn # NotCalled
    /\ turn.stage = "scoring"
    /\ Len(turn.scored) < Len(turn.all_domains)
    /\ turn' = [turn EXCEPT !.scored = Append(@, turn.all_domains[Len(turn.scored) + 1]),
                            !.calls = @ + Len(ActiveJudges(texts.judge))]
    /\ UNCHANGED <<texts, mainVars, pairVars, parseVars, calcVars, rubricVars, reportVars, compareVars>>

(* the candidate loop ends and the pairs are made *)
PairUp ==
    /\ turn # NotCalled
    /\ turn.stage = "scoring"
    /\ Len(turn.scored) = Len(turn.all_domains)
    /\ turn' = [turn EXCEPT !.stage = "paired"]
    /\ UNCHANGED <<texts, mainVars, pairVars, parseVars, calcVars, rubricVars, reportVars, compareVars>>

NextTurn == SelectCandidates \/ ScoreNext \/ PairUp

SpecTurn == InitTurn /\ [][NextTurn]_vars

---------------------------------------------------------------------------
(* The run under its scheduler: the event loop resumes main whenever it   *)
(* can go on, the sleep ends, and every judge call in flight returns or   *)
(* times out                                                              *)

Fairness ==
    /\ WF_vars(Start)
    /\ WF_vars(LoadInputs)
    /\ WF_vars(NextPrompt)
    /\ WF_vars(IssueCalls)
    /\ WF_vars(\E t \in Triples, reply \in Replies : JudgeSettle(t, reply))
    /\ WF_vars(Blend)
    /\ WF_vars(Sleep)
    /\ WF_vars(FinishPrompt)
    /\ WF_vars(SaveResults)

SpecLive == Spec /\ Fairness

---------------------------------------------------------------------------
(* Claims *)

PairRecords == Range(allPairs) \cup Range(outFile.content)

(* C1: every preference pair emitted, in all_pairs and in the output file,  *)
(* has chosen_score - rejected_score strictly above 0.5; a gap of exactly  *)
(* 0.5 produces no pair.                                                    *)
C1_MarginStrict ==
    \A r \in PairRecords : 2 * (r.chosen_score - r.rejected_score) > ScoreScale

(* A run wrote the pair of its first prompt and none for its second, whose *)
(* two candidates were scored exactly 0.5 apart.                           *)
C1_Witness ==
    /\ pc = "done"
    /\ outFile.written
    /\ Len(outFile.content) = 1
    /\ Len(scored) = 2
    /\ 2 * (scored[1].combined_score - scored[2].combined_score) = ScoreScale

MaxScore(cands) ==
    CHOOSE m \in {cands[i].combined_score : i \in DOMAIN cands} :
        \A i \in DOMAIN cands : cands[i].combined_score <= m

(* C2: with two or more candidates every pair has the same chosen          *)
(* candidate, one of top score; a candidate is the rejected side of a pair *)
(* exactly when the top score exceeds its score by more than 0.5; scores   *)
(* 8.0, 7.4, 6.0, 9.0 give three pairs, all with the 9.0 candidate chosen.  *)
C2_BestAgainstRest ==
    (ppDone /\ Len(ppIn) >= 2) =>
        /\ \A i \in DOMAIN ppOut :
              /\ ppOut[i][1] \in Range(ppIn)
              /\ ppOut[i][1].combined_score = MaxScore(ppIn)
              /\ ppOut[i][1] = ppOut[1][1]
        /\ \A c \in Range(ppIn) :
              (\E i \in DOMAIN ppOut : ppOut[i][2] = c)
                  <=> 2 * (MaxScore(ppIn) - c.combined_score) > ScoreScale
        /\ Cardinality({ppOut[i][2] : i \in DOMAIN ppOut}) = Len(ppOut)
        /\ [i \in DOMAIN ppIn |-> ppIn[i].combined_score]
               = <<8 * ScoreScale, (74 * ScoreScale) \div 10, 6 * ScoreScale, 9 * ScoreScale>>
             => /\ Len(ppOut) = 3
                /\ \A i \in DOMAIN ppOut : ppOut[i][1] = ppIn[4]

C2_Witness ==
    /\ ppDone
    /\ [i \in DOMAIN ppIn |-> ppIn[i].combined_score]
           = <<8 * ScoreScale, (74 * ScoreScale) \div 10, 6 * ScoreScale, 9 * ScoreScale>>
    /\ Len(ppOut) = 3

Active == Range(ActiveJudges(judgeArg))

(* A JSON object with exactly the five rubric keys, each a number. *)
IsRubricObject(r) ==
    r.kind = "dict" /\ DOMAIN r.vals = Keys /\ r.nonnum = {}

Other(j) == IF j = "minimax" THEN "deepseek" ELSE "minimax"

TimedOut(j) == j \in DOMAIN outcomes /\ outcomes[j].kind = "timeout"

ReturnedRubric(j) ==
    /\ j \in DOMAIN outcomes
    /\ outcomes[j].kind = "json"
    /\ IsRubricObject(outcomes[j].body)

(* One of two judges timed out, the other returned a rubric, and the blend *)
(* of the candidate has been computed.                                     *)
OneTimedOut(j) ==
    /\ judgeArg = "both"
    /\ pc = "sleep"
    /\ scored # <<>>
    /\ TimedOut(j)
    /\ ReturnedRubric(Other(j))

(* C3 as stated: with two judges of which exactly one times out, the       *)
(* blended verdict is the surviving judge's verdict field for field and    *)
(* combined_score is a number.                                             *)
C3_SurvivorUnchanged ==
    \A j \in Active :
        OneTimedOut(j) =>
            /\ scored[Len(scored)].scores =
                   [k \in Keys |-> 2 * outcomes[Other(j)].body.vals[k]]
            /\ scored[Len(scored)].combined_score \in Int

(* C3 amended: the judge that timed out contributes the neutral verdict    *)
(* with its weight, so every blended field is the mean of 5 and the value  *)
(* the surviving judge returned, and combined_score is a number.           *)
C3_MeanWithNeutral ==
    \A j \in Active :
        OneTimedOut(j) =>
            /\ scored[Len(scored)].scores =
                   [k \in Keys |-> 5 + outcomes[Other(j)].body.vals[k]]
            /\ scored[Len(scored)].combined_score \in Int
            /\ 2 * scored[Len(scored)].combined_score =
                   5 * ScoreScale + FinalScore([k \in Keys |-> 2 * outcomes[Other(j)].body.vals[k]])

C3_Witness == OneTimedOut("minimax") /\ outcomes["deepseek"].body = GoodVerdict

(* C4: every failure outcome of a judge call (non-200 status, API error    *)
(* field, non-JSON content, timeout, other transport exception) makes      *)
(* call_judge return the all-5 verdict, and score_candidate still returns  *)
(* a candidate with a combined_score.                                      *)
C4_FailureStillScores ==
    \A j \in DOMAIN outcomes :
        outcomes[j].kind \in FailureKinds =>
            /\ results[j] = NeutralVerdict
            /\ pc # "raised"
            /\ pc = "sleep" =>
                   /\ scored # <<>>
                   /\ scored[Len(scored)].combined_score \in Int

(* C5: a reply that parses as JSON but is not an object with exactly the   *)
(* five rubric keys and numeric values is replaced by the all-5 verdict    *)
(* and never raises out of score_candidate.                                *)
C5_WrongShapeIsNeutral ==
    \A j \in DOMAIN outcomes :
        (outcomes[j].kind = "json" /\ ~IsRubricObject(outcomes[j].body)) =>
            /\ results[j] = NeutralVerdict
            /\ pc # "raised"

(* C6: score_candidate has one call per active judge, in flight or         *)
(* settled, and no blended field or combined_score of a candidate exists   *)
(* (nor has the blend raised) while a call for it is pending.              *)
C6_BlendAfterAllSettled ==
    /\ pc \in {"gather", "sleep", "raised"} =>
          /\ {t.judge : t \in inflight} \cup DOMAIN results = Active
          /\ {t.judge : t \in inflight} \cap DOMAIN results = {}
    /\ pc \in {"sleep", "raised"} => inflight = {} /\ DOMAIN results = Active
    /\ \A i \in DOMAIN scored :
          \A t \in inflight : ~(t.prompt = promptIdx /\ t.domain = scored[i].domain)

C6_Witness ==
    /\ pc = "sleep"
    /\ judgeArg = "both"
    /\ DOMAIN results = {"minimax", "deepseek"}
    /\ Len(scored) = 2

JudgeFailed(j) ==
    /\ j \in DOMAIN outcomes
    /\ \/ outcomes[j].kind \in FailureKinds
       \/ ~IsRubricObject(outcomes[j].body)

(* C7: when a judge of a candidate fails (transport failure, timeout or    *)
(* unusable content), its sibling is neither cancelled nor given another   *)
(* verdict than the one its own reply determines, and the batch is not     *)
(* aborted.                                                                *)
C7_FailureIsIsolated ==
    \A j \in Active :
        JudgeFailed(j) =>
            /\ \A s \in Active \ {j} :
                  \/ \E t \in inflight : t.judge = s
                  \/ s \in DOMAIN results /\ results[s] = CallJudge(outcomes[s])
            /\ pc # "raised"

(* C8: all calls in flight belong to the one candidate being scored, and   *)
(* while the calls of the n-th candidate of the run are in flight, n-1     *)
(* combined scores have been computed and n-1 delays have elapsed.         *)
C8_OneCandidateAtATime ==
    /\ \A t \in inflight :
          /\ pc = "gather"
          /\ t.prompt = promptIdx
          /\ ci \in DOMAIN domains
          /\ t.domain = domains[ci]
    /\ pc = "gather" => nScored = nIssued - 1 /\ nSlept = nIssued - 1

C8_Witness ==
    /\ pc = "gather"
    /\ promptIdx = 2
    /\ ci = 2
    /\ Cardinality(inflight) = 2
    /\ nSlept = 3

RECURSIVE SumCalls(_)
SumCalls(S) ==
    IF S = {} THEN 0
    ELSE LET t == CHOOSE x \in S : TRUE IN callCount[t] + SumCalls(S \ {t})

(* C9: no triple is called twice; of the current prompt, every candidate   *)
(* whose scoring began had each active judge called once and the others    *)
(* none; the calls of the run number one per active judge and candidate;   *)
(* and a call that failed contributed the neutral value 5, with its        *)
(* judge's weight, to every field of the blend.                            *)
C9_NoRetry ==
    /\ \A t \in Triples : callCount[t] <= 1
    /\ SumCalls(Triples) = nIssued * Cardinality(Active)
    /\ pc \in {"cand", "gather", "sleep", "raised"} =>
          \A i \in 1..Min(ci, Len(domains)) :
              \A j \in Active :
                  callCount[Call(promptIdx, domains[i], j)] =
                      IF i = ci /\ pc = "cand" THEN 0 ELSE 1
    /\ \A j \in DOMAIN outcomes :
          outcomes[j].kind \in FailureKinds =>
              /\ results[j] = NeutralVerdict
              /\ (pc = "sleep" /\ scored # <<>>) =>
                    \A k \in Keys :
                        /\ k \in DOMAIN scored[Len(scored)].scores
                        /\ scored[Len(scored)].scores[k] =
                              IF judgeArg # "both" THEN 2 * 5
                              ELSE 5 + (IF k \in DOMAIN results[Other(j)].vals
                                        THEN results[Other(j)].vals[k] ELSE 0)

C9_Witness ==
    /\ pc = "sleep"
    /\ promptIdx = 2
    /\ Len(scored) = 2
    /\ TimedOut("deepseek")
    /\ SumCalls(Triples) = 8

(* C10: without the credential the run stops at startup: nothing is        *)
(* loaded, no judge is called and the output file is not touched.          *)
C10_NoKeyNoProcessing ==
    ~Truthy(apiKey) =>
        /\ pc \in {"start", "nokey"}
        /\ ~loaded
        /\ todo = <<>>
        /\ inflight = {}
        /\ \A t \in Triples : callCount[t] = 0
        /\ allPairs = <<>>
        /\ outFile = AsFound
        /\ outWrites = 0

C10_Witness == pc = "nokey" /\ apiKey = ""

---------------------------------------------------------------------------
(* Ranking and skipping in main *)

(* position at which a string was first extracted from the responses *)
FirstAt(s, d) == CHOOSE i \in DOMAIN s : s[i] = d /\ \A k \in 1..(i - 1) : s[k] # d

(* C17: while a prompt's candidates are being scored, the ranking of the   *)
(* candidates scored so far (combined_score descending) puts, among        *)
(* candidates of equal combined_score, the one extracted earlier from the  *)
(* responses first; in particular the top of the ranking is the earliest   *)
(* extracted of the candidates that tie for the best score.                *)
C17_TiesInExtractionOrder ==
    pc \in {"cand", "gather", "sleep", "raised"} =>
        LET ranked == SortedCandidates(scored)
        IN \A i, j \in DOMAIN ranked :
               (i < j /\ ranked[i].combined_score = ranked[j].combined_score)
                   => FirstAt(rawDomains, ranked[i].domain) < FirstAt(rawDomains, ranked[j].domain)

FewCandidates(all) == Cardinality(Range(all)) < 2

(* create_preference_pairs on every list of 0 or 1 candidate *)
NoPairFromFewCandidates ==
    \A cands \in {c \in CandidateLists : Len(c) < 2} : CreatePreferencePairs(cands) = <<>>

(* C18: a prompt whose responses yield fewer than 2 distinct domain        *)
(* strings is skipped: while it is the current prompt no judge call has    *)
(* been issued for it, no candidate of it is being scored and no pair      *)
(* carries its index; judge calls and pairs are only ever added for the    *)
(* current prompt, so none is added for it later either; and               *)
(* create_preference_pairs returns no pair for a list of 0 or 1 candidate.  *)
C18_FewCandidatesSkipped ==
    /\ [](/\ (promptIdx >= 1 /\ FewCandidates(rawDomains)) =>
                /\ pc \in {"loop", "done"}
                /\ \A t \in Triples : t.prompt = promptIdx => callCount[t] = 0 /\ t \notin inflight
                /\ \A i \in DOMAIN allPairs : allPairs[i].prompt # promptIdx
          /\ NoPairFromFewCandidates)
    /\ [][/\ \A t \in Triples : t.prompt # promptIdx' => callCount'[t] = callCount[t]
          /\ Len(allPairs') >= Len(allPairs)
          /\ \A i \in DOMAIN allPairs' :
                 IF i <= Len(allPairs) THEN allPairs'[i] = allPairs[i]
                 ELSE allPairs'[i].prompt = promptIdx']_vars

(* a run in which the first prompt was scored and the second one skipped *)
C18_Witness ==
    /\ pc = "done"
    /\ promptIdx = 2
    /\ rawDomains = <<"a.com">>
    /\ nScored = 2
    /\ \A t \in Triples : t.prompt = 2 => callCount[t] = 0

---------------------------------------------------------------------------
(* Extraction *)

(* the names of a parser's result, whether it returns names or (name, tld) *)
NamesOf(rubric, out) ==
    IF rubric \in {"constraint", "premium"} THEN [i \in DOMAIN out |-> out[i][1]] ELSE out

(* C14: for one response, the parsers that have run extracted the same     *)
(* number of domains with the same names in the same order; the two        *)
(* (name, tld) variants returned the same tuples, the two name-only        *)
(* variants the same names, and those names are the first components of    *)
(* the tuples.                                                             *)
C14_ParsersAgree ==
    \A p, q \in DOMAIN parsed :
        /\ Len(parsed[p]) = Len(parsed[q])
        /\ NamesOf(p, parsed[p]) = NamesOf(q, parsed[q])
        /\ ({p, q} = {"constraint", "premium"} => parsed[p] = parsed[q])
        /\ ({p, q} = {"diversity", "pronounceability"} => parsed[p] = parsed[q])

(* all four parsers have read a two-line response with capitals, digits,   *)
(* an em dash and a hyphen separator, and found its two domains            *)
C14_Witness ==
    /\ response = TwoLines
    /\ DOMAIN parsed = Range(ParserOrder)
    /\ parsed["diversity"] = << <<"n", "o", "v", "a">>, <<"g", "e", "t", "7">> >>
    /\ parsed["premium"][2] = << <<"g", "e", "t", "7">>, <<"i", "o">> >>

---------------------------------------------------------------------------
(* Rubric scores *)

AllRubrics == Range(ParserOrder)

(* the domains a response of the rubric specification carries *)
NoDomains(s) == s.lines = <<>>

(* C11: every sub-score and the overall field of every rubric result       *)
(* (check_constraints, check_diversity, check_pronounceability_response,   *)
(* check_premium_response) is a number from 0.0 to 1.0, for every prompt   *)
(* and response.                                                           *)
C11_ScoresInUnitRange ==
    \A r \in DOMAIN rubrics : \A f \in DOMAIN rubrics[r] :
        /\ 0 <= rubrics[r][f].lo
        /\ rubrics[r][f].lo <= rubrics[r][f].hi
        /\ rubrics[r][f].hi <= 1000

(* the four rubrics have scored a response whose one name uses all 37      *)
(* characters: its character diversity is capped at 1.0                    *)
C11_Witness ==
    /\ DOMAIN rubrics = AllRubrics
    /\ Len(sample.lines) = 1
    /\ Cardinality(Range(sample.lines[1][1])) = 37
    /\ rubrics["diversity"].char_diversity = Thousandths(1000)

(* C16: when no domain is extracted from the response, check_constraints   *)
(* returns 0.0 for length, TLD, prefix/suffix, count and overall, whatever *)
(* constraints the prompt declares.                                        *)
C16_NoDomainsAllZero ==
    ("constraint" \in DOMAIN rubrics /\ NoDomains(sample)) =>
        \A f \in {"length_satisfied", "tld_satisfied", "prefix_suffix_satisfied",
                  "count_satisfied", "overall"} :
            rubrics["constraint"][f] = Thousandths(0)

(* a prompt without any constraint, and a response with text but no domain *)
C16_Witness ==
    /\ "constraint" \in DOMAIN rubrics
    /\ sample.prompt = NoConstraint
    /\ sample.response = NoSeparator
    /\ rubrics["constraint"].overall = Thousandths(0)


Abs(x) == IF x < 0 THEN -x ELSE x

(* v thousandths is the fraction num/den rounded to 3 decimals *)
IsRounded(v, num, den) == 2 * Abs(1000 * num - v * den) <= den

(* C15: with `found` >= 1 extracted domains and a target count >= 1,       *)
(* ratio = found/target, the count score is 1.0 for 0.8 <= ratio <= 1.2,   *)
(* ratio/0.8 below the band and 1.2/ratio above it (as rounded to 3        *)
(* decimals in the result); it never exceeds 1.0; against every other      *)
(* found/target it is non-decreasing in the ratio below the band and       *)
(* non-increasing above it; and it is 1.0 at ratio 1.0, 0.5 at ratio 0.4   *)
(* and 0.5 at ratio 2.4.                                                   *)
C15_CountScore ==
    \A t \in 1..MaxTarget :
        ("constraint" \in DOMAIN rubrics /\ sample.prompt = CountPrompt(t) /\ sample.lines # <<>>) =>
            LET k == Len(sample.lines)
                c == rubrics["constraint"].count_satisfied
            IN /\ c.hi <= 1000
               /\ (8 * t <= 10 * k /\ 10 * k <= 12 * t) => c = Thousandths(1000)
               /\ 10 * k < 8 * t => \A v \in c.lo..c.hi : IsRounded(v, 10 * k, 8 * t)
               /\ 10 * k > 12 * t => \A v \in c.lo..c.hi : IsRounded(v, 12 * t, 10 * k)
               /\ \A k2 \in 1..MaxFound, t2 \in 1..MaxTarget :
                      LET other == Round3(CountSatisfied(k2, Some(t2)))
                      IN /\ (k * t2 <= k2 * t /\ 10 * k2 < 8 * t2)
                                => (c.lo <= other.lo /\ c.hi <= other.hi)
                         /\ (10 * k > 12 * t /\ k * t2 <= k2 * t)
                                => (c.lo >= other.lo /\ c.hi >= other.hi)
               /\ k = t => c = Thousandths(1000)
               /\ 5 * k = 2 * t => c = Thousandths(500)
               /\ 5 * k = 12 * t => c = Thousandths(500)

(* twelve domains were found where five were asked for: ratio 2.4 *)
C15_Witness ==
    /\ "constraint" \in DOMAIN rubrics
    /\ sample.prompt = CountPrompt(5)
    /\ Len(sample.lines) = 12
    /\ rubrics["constraint"].count_satisfied = Thousandths(500)


---------------------------------------------------------------------------
(* Ratios with a zero denominator *)

(* the call divides by zero unless the code guards it *)
ZeroDenominator(call) ==
    CASE call.fn = "calculate_ttr" -> \A i \in DOMAIN call.args : Len(call.args[i]) < 3
      [] call.fn \in {"calculate_prefix_diversity", "calculate_suffix_diversity"} ->
             \A i \in DOMAIN call.args : Len(call.args[i]) < 2
      [] call.fn \in {"calculate_duplicate_rate", "calculate_char_diversity"} ->
             call.args = <<>>
      [] call.fn = "count_satisfied" -> call.args[2] = 0
      [] call.fn = "score_candidate" ->
             \A j \in DOMAIN call.args : call.args[j] = RaisedException
      [] call.fn = "calculate_memorability_score" -> call.args = <<>>
      [] OTHER -> FALSE

(* the constant the code returns in place of the quotient *)
DefinedConstant(call) ==
    CASE call.fn = "calculate_ttr" -> IF call.args = <<>> THEN {Zero} ELSE {One}
      [] call.fn = "count_satisfied" -> {One}
      [] call.fn = "score_candidate" -> {DomainCandidate("a.com", EmptyDict)}
      [] call.fn = "calculate_memorability_score" -> {Frac(k, 10) : k \in 0..10}
      [] OTHER -> {Zero}

(* C13: a ratio whose denominator is zero does not raise and returns its   *)
(* defined constant: TTR with no 3-grams, prefix/suffix diversity with no  *)
(* name of length >= 2, duplicate rate and character diversity with no     *)
(* names, the count ratio with target 0, the judge blend with total weight *)
(* 0, and premium memorability of an empty name.                           *)
C13_ZeroDenominatorDefined ==
    (calcOut # NotCalled /\ ZeroDenominator(calcArgs)) =>
        /\ ~calcOut.raised
        /\ calcOut.value \in DefinedConstant(calcArgs)


---------------------------------------------------------------------------
(* Aggregate reports *)

ReportKeys ==
    {"constraints", "diversity", "cross_batch_diversity", "pronounceability",
     "premium", "combined_score"}

(* C12: for a non-empty batch, also when some or all responses yield no    *)
(* domain, evaluate_dataset does not raise and its report has the four     *)
(* rubric reports, cross_batch_diversity and combined_score.               *)
C12_DatasetNeverRaises ==
    (report # NotCalled /\ report.entry = "evaluate_dataset" /\ samples # <<>>) =>
        /\ ~report.raised
        /\ ReportKeys \subseteq DOMAIN report

(* C19: in both entry points combined_score is 0.30 constraints + 0.20     *)
(* diversity + 0.25 pronounceability + 0.25 premium (the avg_overall of    *)
(* each rubric report) rounded to 3 decimals, and lies in [0, 1].          *)
C19_CombinedScore ==
    (report # NotCalled /\ ~report.raised) =>
        LET c == report.constraints.avg_overall
            d == report.diversity.avg_overall
            p == report.pronounceability.avg_overall
            m == report.premium.avg_overall
            s == report.combined_score
        IN /\ report.entry \in {"evaluate_dataset", "evaluate_results"}
           /\ IsRounded(s.lo, 30 * c.lo + 20 * d.lo + 25 * p.lo + 25 * m.lo, 100000)
           /\ IsRounded(s.hi, 30 * c.hi + 20 * d.hi + 25 * p.hi + 25 * m.hi, 100000)
           /\ 0 <= s.lo /\ s.lo <= s.hi /\ s.hi <= 1000

(* evaluate_results reported a batch whose constraint and diversity means  *)
(* differ, so the weights of the two matter                                *)
C19_Witness ==
    /\ report # NotCalled
    /\ ~report.raised
    /\ report.entry = "evaluate_results"
    /\ Len(samples) = 2
    /\ report.constraints.avg_overall.lo > report.diversity.avg_overall.hi + 100
    /\ report.combined_score.lo > 0


---------------------------------------------------------------------------
(* Comparison of two result sets *)

(* C20: in compare_results and in compare_with_baseline each of the five   *)
(* compared fields is reported unchanged when the two values differ by at  *)
(* most 0.001, up when the second is larger by more than 0.001 and down    *)
(* when it is smaller by more than 0.001.                                  *)
C20_FixedEpsilon ==
    (cmpOut # NotCalled /\ cmpOut.arrows # NoArrows) =>
        \A f \in Range(Metrics) :
            LET diff == cmpFiles.r2[f] - cmpFiles.r1[f]
            IN cmpOut.arrows[f] =
                   IF diff > HalfThousandth THEN "up"
                   ELSE IF diff < -HalfThousandth THEN "down"
                   ELSE "="


---------------------------------------------------------------------------
(* The blend of the judges' verdicts *)

(* the judges whose gathered result is not an exception *)
Contributors(res) == {j \in DOMAIN res : res[j] # RaisedException}

(* C21: when no judge contributes to the blend of a candidate (every       *)
(* gathered result is an exception, or no judge is active), score_candidate *)
(* does not raise, the blended rubric is empty and combined_score is 5.0.   *)
C21_NoContributorNeutralScore ==
    (calcOut # NotCalled /\ calcArgs.fn = "score_candidate" /\ Contributors(calcArgs.args) = {}) =>
        /\ ~calcOut.raised
        /\ DOMAIN calcOut.value.scores = {}
        /\ calcOut.value.combined_score = 5 * ScoreScale

(* both judges were asked and both results are exceptions *)
C21_Witness ==
    /\ calcOut # NotCalled
    /\ calcArgs.fn = "score_candidate"
    /\ DOMAIN calcArgs.args = {"minimax", "deepseek"}
    /\ Contributors(calcArgs.args) = {}
    /\ calcOut.value.combined_score = 5 * ScoreScale


(* the values the contributing judges returned for field k *)
ContributedValues(res, k) ==
    {res[j].vals[k] : j \in {c \in Contributors(res) : k \in DOMAIN res[c].vals}}

(* C28: with positive total weight every blended field lies between the    *)
(* smallest and the largest value a contributing judge returned for it,    *)
(* also when the judges return different sets of keys (blended fields are  *)
(* kept in half points).                                                    *)
C28_BlendWithinJudgeValues ==
    (/\ calcOut # NotCalled
     /\ calcArgs.fn = "score_candidate"
     /\ Contributors(calcArgs.args) # {}
     /\ ~calcOut.raised) =>
        \A k \in DOMAIN calcOut.value.scores :
            /\ ContributedValues(calcArgs.args, k) # {}
            /\ \E v \in ContributedValues(calcArgs.args, k) : 2 * v <= calcOut.value.scores[k]
            /\ \E v \in ContributedValues(calcArgs.args, k) : calcOut.value.scores[k] <= 2 * v


(* what the parsers of the diversity and of the constraint module extract *)
(* from each response that is scored                                      *)
RubricResponses == {s.response : s \in RubricSamples}

ExtractedNames == [r \in RubricResponses |-> DiversityParseDomainNames(r)]

ExtractedDomains == [r \in RubricResponses |-> ParseDomainsFromResponse(r)]

(* C22: for a response with k >= 1 extracted names of which d are distinct  *)
(* the diversity result's duplicate_rate is (k - d)/k, to three decimals:  *)
(* 0.0 when no name repeats and (k - 1)/k for k copies of one name; for a  *)
(* response with no extracted name the result is duplicate_rate = 1.0 and  *)
(* 0.0 in every other field, overall included.                             *)
C22_DuplicateRate ==
    "diversity" \in DOMAIN rubrics =>
        With(ExtractedNames[sample.response], LAMBDA names :
            With(Cardinality(Range(names)), LAMBDA d :
                /\ Len(names) >= 1 =>
                    /\ rubrics["diversity"].duplicate_rate = Round3(Frac(Len(names) - d, Len(names)))
                    /\ d = Len(names) => rubrics["diversity"].duplicate_rate = Thousandths(0)
                    /\ d = 1 => rubrics["diversity"].duplicate_rate
                                    = Round3(Frac(Len(names) - 1, Len(names)))
                /\ Len(names) = 0 =>
                    rubrics["diversity"] =
                        [type_token_ratio |-> Thousandths(0), duplicate_rate |-> Thousandths(1000),
                         char_diversity |-> Thousandths(0), prefix_diversity |-> Thousandths(0),
                         suffix_diversity |-> Thousandths(0), overall |-> Thousandths(0)]))

(* C22 witness: six identical names were scored with duplicate_rate 0.833, *)
(* which is 5/6 to three decimals                                          *)
C22_Witness ==
    /\ "diversity" \in DOMAIN rubrics
    /\ Len(ExtractedNames[sample.response]) = 6
    /\ Cardinality(Range(ExtractedNames[sample.response])) = 1
    /\ rubrics["diversity"].duplicate_rate = Thousandths(833)


(* the place where x first occurs in items *)
FirstSeen(items, x) == CHOOSE i \in DOMAIN items : items[i] = x /\ \A j \in 1..(i - 1) : items[j] # x

(* entry e of a top list comes before item x: e has a higher count, or the *)
(* same count and was seen no later                                        *)
Precedes(items, e, x) ==
    \/ e[2] > Tally(items, x)
    \/ e[2] = Tally(items, x) /\ FirstSeen(items, e[1]) <= FirstSeen(items, x)

(* top is a list of at most 10 items of the corpus with their counts, in   *)
(* descending count and, within a count, in order of first occurrence; an  *)
(* item of the corpus is left out only behind 10 entries that precede it   *)
IsTopTen(items, top) ==
    /\ Len(top) <= 10
    /\ \A i \in DOMAIN top : top[i][1] \in Range(items) /\ top[i][2] = Tally(items, top[i][1])
    /\ \A i, j \in DOMAIN top : i < j =>
          /\ top[i][1] # top[j][1]
          /\ top[i][2] >= top[j][2]
          /\ top[i][2] = top[j][2] => FirstSeen(items, top[i][1]) < FirstSeen(items, top[j][1])
    /\ \A x \in Range(items) : (\A i \in DOMAIN top : top[i][1] # x) =>
          Cardinality({i \in DOMAIN top : Precedes(items, top[i], x)}) = 10

(* C23: for a non-empty corpus evaluate_cross_batch_diversity reports      *)
(* total_names, unique_names <= total_names, and for the names, their      *)
(* 3-character prefixes and their 3-character suffixes a list of at most   *)
(* 10 entries in descending frequency, equal frequencies in order of first *)
(* occurrence; an entry is left out only if 10 entries of higher or equal  *)
(* frequency and earlier or equal precedence exist.                        *)
C23_CrossBatchTopTen ==
    (calcOut # NotCalled /\ calcArgs.fn = "evaluate_cross_batch_diversity" /\ calcArgs.args # <<>>) =>
        /\ ~calcOut.raised
        /\ calcOut.value.total_names = Len(calcArgs.args)
        /\ calcOut.value.unique_names <= calcOut.value.total_names
        /\ IsTopTen(calcArgs.args, calcOut.value.most_common_names)
        /\ IsTopTen(SelectSeq([i \in DOMAIN calcArgs.args |->
                                  SubSeq(calcArgs.args[i], 1, Min(3, Len(calcArgs.args[i])))],
                              LAMBDA a : Len(a) = 3),
                    calcOut.value.most_common_prefixes)
        /\ IsTopTen(SelectSeq([i \in DOMAIN calcArgs.args |->
                                  SubSeq(calcArgs.args[i], Len(calcArgs.args[i]) - Min(3, Len(calcArgs.args[i])) + 1,
                                         Len(calcArgs.args[i]))],
                              LAMBDA a : Len(a) = 3),
                    calcOut.value.most_common_suffixes)

(* C23 witness: a corpus of more than 10 distinct names, with more than 10 *)
(* distinct prefixes, in which a name seen late and twice is listed first  *)
(* and names of count 1 are left out                                       *)
C23_Witness ==
    /\ calcOut # NotCalled
    /\ calcArgs.fn = "evaluate_cross_batch_diversity"
    /\ Cardinality(Range(calcArgs.args)) > 10
    /\ Len(calcOut.value.most_common_names) = 10
    /\ Len(calcOut.value.most_common_prefixes) = 10
    /\ calcOut.value.most_common_names[1] = <<CorpusPool[12], 2>>
    /\ calcOut.value.most_common_names[2][2] = 1


(* the required substring of a prompt: the "must start with" value when    *)
(* there is one, else the "must include" value                             *)
RequiredSubstring(prompt) == IF prompt.start # None THEN prompt.start ELSE prompt.include

(* the places of the domains that pass the first applicable test: the      *)
(* required substring occurs anywhere in the name, otherwise the name ends *)
(* with the suffix                                                         *)
Counted(prompt, found) ==
    {i \in DOMAIN found :
        IF RequiredSubstring(prompt) # None /\ Contains(found[i][1], RequiredSubstring(prompt)[1])
        THEN TRUE
        ELSE prompt.end # None /\ EndsWith(found[i][1], prompt.end[1])}

(* C24: when the prompt sets a required substring p and/or a suffix s, a   *)
(* domain is counted at most once, by the first applicable test: p occurs  *)
(* anywhere in the name (also for "must start with"), otherwise the name   *)
(* ends with s; a "must start with" value replaces a "must include" value; *)
(* the prefix/suffix score is the fraction of domains counted, with no     *)
(* extra credit for passing both tests.                                    *)
C24_PrefixSuffixCountedOnce ==
    ("constraint" \in DOMAIN rubrics
        /\ (sample.prompt.include # None \/ sample.prompt.start # None \/ sample.prompt.end # None)) =>
        With(ExtractedDomains[sample.response], LAMBDA found :
            found # <<>> =>
                /\ rubrics["constraint"].prefix_suffix_satisfied =
                       Round3(Frac(Cardinality(Counted(sample.prompt, found)), Len(found)))
                /\ rubrics["constraint"].prefix_suffix_satisfied.hi <= 1000)

(* C24 witness: 'Must include "o". Must end with "a".' scored on nova.com, *)
(* which passes both tests, and a.com, which passes only the second: 1.0   *)
C24_Witness ==
    /\ "constraint" \in DOMAIN rubrics
    /\ sample.prompt = IncludeEndPrompt
    /\ sample.lines = <<DomainPool[4], DomainPool[1]>>
    /\ rubrics["constraint"].prefix_suffix_satisfied = Thousandths(1000)

(* C24 witness of the replacement: under 'Must include "zz". Must start    *)
(* with "a". Must end with "7".' nova.com, with an "a" that is not at its  *)
(* start, and 7.io are both counted, and -.xyz is not                      *)
C24_StartWithAnywhere ==
    /\ "constraint" \in DOMAIN rubrics
    /\ sample.prompt = StartEndPrompt
    /\ sample.lines = <<DomainPool[4], DomainPool[2]>>
    /\ rubrics["constraint"].prefix_suffix_satisfied = Thousandths(1000)


(* the sum of the four constraint fields of a result, at one end of their *)
(* rounding ranges                                                        *)
FieldSum(result, end) ==
    result.length_satisfied[end] + result.tld_satisfied[end]
        + result.prefix_suffix_satisfied[end] + result.count_satisfied[end]

(* C25: when at least one domain is extracted, each of the four constraint *)
(* kinds the prompt does not declare scores exactly 1.0 in its field,      *)
(* whatever the other three are, and overall is the unweighted mean of the *)
(* four fields, to the third decimal; with no constraint declared every    *)
(* field is 1.0.                                                           *)
C25_UndeclaredScoresOne ==
    ("constraint" \in DOMAIN rubrics /\ ExtractedDomains[sample.response] # <<>>) =>
        /\ sample.prompt.length = None => rubrics["constraint"].length_satisfied = Thousandths(1000)
        /\ sample.prompt.tlds = None => rubrics["constraint"].tld_satisfied = Thousandths(1000)
        /\ (sample.prompt.include = None /\ sample.prompt.start = None /\ sample.prompt.end = None)
               => rubrics["constraint"].prefix_suffix_satisfied = Thousandths(1000)
        /\ sample.prompt.count = None => rubrics["constraint"].count_satisfied = Thousandths(1000)
        /\ 4 * rubrics["constraint"].overall.lo <= FieldSum(rubrics["constraint"], "hi") + 4
        /\ 4 * rubrics["constraint"].overall.hi >= FieldSum(rubrics["constraint"], "lo") - 4
        /\ sample.prompt = NoConstraint =>
               \A f \in DOMAIN rubrics["constraint"] : rubrics["constraint"][f] = Thousandths(1000)

(* C25 witness: 'Must end with "a".' scored on 7.io: the three undeclared  *)
(* kinds score 1.0, the declared one 0.0, and overall is 0.75              *)
C25_Witness ==
    /\ "constraint" \in DOMAIN rubrics
    /\ sample.prompt = EndPrompt
    /\ sample.lines = <<DomainPool[2]>>
    /\ rubrics["constraint"].length_satisfied = Thousandths(1000)
    /\ rubrics["constraint"].tld_satisfied = Thousandths(1000)
    /\ rubrics["constraint"].count_satisfied = Thousandths(1000)
    /\ rubrics["constraint"].prefix_suffix_satisfied = Thousandths(0)
    /\ rubrics["constraint"].overall = Thousandths(750)


(* the name without its digits *)
DigitsRemoved(name) == SelectSeq(name, LAMBDA c : c \notin Digits)

(* C26: check_pronounceability computes the vowel, cluster and pattern     *)
(* scores on the name with every non-letter removed and the length score   *)
(* on the raw name: names with the same letters in the same order and the  *)
(* same raw length get the same result, the cluster score is the one the   *)
(* name has without its digits, and a name with no letter scores 0.0 in    *)
(* every field, length and overall included.                               *)
C26_ScoredOnLetters ==
    (calcOut # NotCalled /\ calcArgs.fn = "check_pronounceability") =>
        /\ ~calcOut.raised
        /\ \A other \in PronounceNames :
              (AlphaOnly(other) = AlphaOnly(calcArgs.args) /\ Len(other) = Len(calcArgs.args))
                  => CheckPronounceability(other) = calcOut.value
        /\ AlphaOnly(calcArgs.args) # <<>> =>
              /\ calcOut.value.vowel_ratio = Round3(PronounceVowelRatio(AlphaOnly(calcArgs.args)))
              /\ calcOut.value.pattern_score = Round3(PronouncePatternScore(AlphaOnly(calcArgs.args)))
              /\ calcOut.value.consonant_cluster_score
                     = Round3(PronounceClusterScore(AlphaOnly(calcArgs.args)))
              /\ calcOut.value.consonant_cluster_score
                     = CheckPronounceability(DigitsRemoved(calcArgs.args)).consonant_cluster_score
              /\ calcOut.value.length_score = Round3(PronounceLengthScore(calcArgs.args))
        /\ AlphaOnly(calcArgs.args) = <<>> =>
              \A f \in DOMAIN calcOut.value : calcOut.value[f] = Thousandths(0)

(* C26 witness: "xx9999brewly----", 16 characters with a run of four       *)
(* digits, scored as "xxbrewly" for its clusters and as 16 long            *)
C26_Witness ==
    /\ calcOut # NotCalled
    /\ calcArgs.fn = "check_pronounceability"
    /\ Len(calcArgs.args) = 16
    /\ AlphaOnly(calcArgs.args) = <<"x", "x", "b", "r", "e", "w", "l", "y">>
    /\ calcOut.value.length_score = Thousandths(300)
    /\ calcOut.value.consonant_cluster_score = Thousandths(400)

(* C26 witness of a name with no letter: "123" scores 0.0 throughout *)
C26_NoLetter ==
    /\ calcOut # NotCalled
    /\ calcArgs.fn = "check_pronounceability"
    /\ calcArgs.args = <<"1", "2", "3">>
    /\ calcOut.value.length_score = Thousandths(0)
    /\ calcOut.value.overall = Thousandths(0)


(* C27: within one prompt no domain string is scored twice and at most     *)
(* 2 * candidates_per_prompt candidates are scored, so the judge calls of  *)
(* the prompt are at most 2 * candidates_per_prompt * (number of active    *)
(* judges), and each response contributes at most 10 extracted domains.    *)
C27_BoundedScoring ==
    turn # NotCalled =>
        /\ \A i \in DOMAIN turn.extracted : Len(turn.extracted[i]) <= 10
        /\ \A i, j \in DOMAIN turn.scored : i # j => turn.scored[i] # turn.scored[j]
        /\ Range(turn.scored) \subseteq UNION {Range(turn.extracted[i]) : i \in DOMAIN turn.extracted}
        /\ Len(turn.scored) <= 2 * CandidatesPerPrompt
        /\ turn.calls = Len(turn.scored) * Len(ActiveJudges(texts.judge))
        /\ turn.calls <= 2 * CandidatesPerPrompt * Len(ActiveJudges(texts.judge))

(* C27 witness: a numbered response of 12 domain lines gave 10 domains,    *)
(* with more distinct strings than the candidate list holds, and with both *)
(* judges the prompt was paired after 2 * candidates_per_prompt scorings   *)
(* and twice as many judge calls                                           *)
C27_Witness ==
    /\ turn # NotCalled
    /\ turn.stage = "paired"
    /\ texts.judge = "both"
    /\ texts.candidates_text[1] = NumberedResponse(LongList)
    /\ Len(turn.extracted[1]) = 10
    /\ Cardinality(Range(turn.extracted[1])) > 2 * CandidatesPerPrompt
    /\ Len(turn.scored) = 2 * CandidatesPerPrompt
    /\ turn.calls = 4 * CandidatesPerPrompt


(* C29: the output file is written exactly once, after every prompt has    *)
(* been processed, and holds the pairs of all processed prompts in         *)
(* processing order; when the processing of a prompt raises, no pair of an *)
(* earlier prompt is persisted and the output file is as the run found it. *)
C29_WrittenOnceAtEnd ==
    /\ outWrites <= 1
    /\ outWrites = 1 <=> pc = "done"
    /\ pc = "done" =>
          /\ todo = <<>>
          /\ outFile = Written(allPairs)
          /\ \A i, j \in DOMAIN outFile.content :
                i < j => outFile.content[i].prompt <= outFile.content[j].prompt
    /\ pc # "done" => outFile = AsFound
    /\ pc = "raised" => outWrites = 0

(* C29 witness: a run over two prompts is done and the file, written once, *)
(* holds a pair of the first prompt followed by a pair of the second       *)
C29_Witness ==
    /\ pc = "done"
    /\ outWrites = 1
    /\ Len(outFile.content) = 2
    /\ outFile.content[1].prompt = 1
    /\ outFile.content[2].prompt = 2

(* C29 witness of a run that raises: the second prompt raised after the    *)
(* first had given a pair, and the file is as the run found it             *)
C29_RaisedAfterPair ==
    /\ pc = "raised"
    /\ promptIdx = 2
    /\ allPairs # <<>>
    /\ outFile = AsFound


(* C30: when every judge call returns or times out, a run that has passed  *)
(* the credential check eventually finishes: the output is written.        *)
C30_EventuallyWritten == (pc = "load") ~> (pc = "done" /\ outFile.written)

(* C30, the part that holds: every fan-out join completes, and the run     *)
(* ends, with the output written or with the exception of a blend          *)
C30_EventuallyEnds ==
    /\ (pc = "gather") ~> (pc \in {"sleep", "raised"})
    /\ (pc = "load") ~> (pc \in {"done", "raised"})

====
